---- MODULE Spec2Model ----
(***************************************************************************)
(* Model of the thread-safe logger of CLibs (src/src/Logger/logger.c,      *)
(* src/include/ayaztub/logger.h).                                          *)
(*                                                                         *)
(* The process-wide logger state is the set of static variables of         *)
(* logger.c.  Every thread has a program counter pc[t] and a frame of      *)
(* locals loc[t]; a function of logger.c is cut into one step per access   *)
(* to the shared state (a read or write of a static variable, a mutex      *)
(* operation, a write to a sink), so that every interleaving of the C code *)
(* is an interleaving of the steps.                                        *)
(***************************************************************************)
EXTENDS Integers, Sequences, FiniteSets, TLC

\* ------------------------------------------------------------------ bounds
NThreads == 2       \* threads of the process (thread 1 is the main thread)
MaxRecords == 1     \* log calls issued in one run
MaxHandles == 2     \* FILE handles opened in one run
MaxFrames == 2      \* frames backtrace() captures besides the capturing one

Threads == 1..NThreads
MainThread == 1
Handles == 1..MaxHandles

\* ------------------------------------------------------- enum log_level
LOG_QUITE == 0
LOG_FATAL == 1
LOG_ERROR == 2
LOG_TIMEOUT == 3
LOG_WARN == 4
LOG_INFO == 5
LOG_TRACE == 6
LOG_DEBUG == 7
LOG_FULL == 8
LogLevels == LOG_QUITE..LOG_FULL
RecordLevels == LOG_FATAL..LOG_DEBUG

EXIT_FAILURE == 1

\* the crash signals of logger_init, with their Linux numbers
SIGILL == 4
SIGABRT == 6
SIGBUS == 7
SIGFPE == 8
SIGSEGV == 11
Signals == {SIGSEGV, SIGILL, SIGABRT, SIGFPE, SIGBUS}
MESSAGE_SIZE == 1024    \* char message[1024]

NULL == 0               \* the null FILE pointer
NoCallback == "NULL"    \* the null logger_cb_t

VARIABLES
    log_file,           \* static FILE *log_file
    log_mutex,          \* static pthread_mutex_t log_mutex: 0 or the owner
    log_callback,       \* static logger_cb_t log_callback
    current_log_level,  \* static enum log_level current_log_level
    show_date,          \* static bool show_date
    show_thread,        \* static bool show_thread
    log_trace_on_fatal, \* static bool log_trace_on_fatal
    pc,                 \* position of every thread in the code
    loc,                \* locals of the function every thread executes
    outer,              \* the log call a thread's callback was invoked from
    retval,             \* value returned by the last call of every thread
    handle,             \* every FILE handle: state, path, who opened it
    disk,               \* content of every file: the lines written, in order
    cbLog,              \* invocations of the registered callback, in order
    acquired,           \* records in the order log_message took the mutex
    process,            \* "running", or how the process ended
    spawned,            \* whether the worker threads have been created
    nrecords,           \* log calls issued so far by every thread
    call,               \* the log call of every thread, as it was issued
    env,                \* the environment of the process (getenv, setenv)
    outfile,            \* core_utils: static FILE *outfile
    logger_options,     \* core_utils: static struct logger_options
    streams,            \* core_utils: lines on stdout, stderr and the file
    fileCalls,          \* core_utils: calls of open_file and close_file
    disposition,        \* what the process does on every crash signal
    heap                \* calls that allocate or release heap memory

vars == <<log_file, log_mutex, log_callback, current_log_level, show_date,
          show_thread, log_trace_on_fatal, pc, loc, outer, retval, handle,
          disk, cbLog, acquired, process, spawned, nrecords, call,
          env, outfile, logger_options, streams, fileCalls, disposition,
          heap>>

config == <<log_file, log_callback, current_log_level, show_date,
            show_thread, log_trace_on_fatal>>
sinks == <<handle, disk, cbLog>>
core == <<outfile, logger_options, streams, fileCalls>>
harness == <<spawned, nrecords, call, env, core, disposition, heap>>

\* ------------------------------------------------------------- C strings
\* A C string is the sequence of its characters (the terminating NUL left
\* out); strcmp(a, b) == 0 is equality of the sequences.
S_LOG_ == <<"L", "O", "G", "_">>
S_FULL == <<"F", "U", "L", "L">>
S_DEBUG == <<"D", "E", "B", "U", "G">>
S_TRACE == <<"T", "R", "A", "C", "E">>
S_INFO == <<"I", "N", "F", "O">>
S_WARN == <<"W", "A", "R", "N">>
S_ERROR == <<"E", "R", "R", "O", "R">>
S_FATAL == <<"F", "A", "T", "A", "L">>
S_QUIET == <<"Q", "U", "I", "E", "T">>
S_TIMEOUT == <<"T", "I", "M", "E", "O", "U", "T">>
S_UNKNOWN == <<"U", "N", "K", "N", "O", "W", "N">>
S_INVALID == <<"I", "N", "V", "A", "L", "I", "D">>
S_info == <<"i", "n", "f", "o">>
S_Debug == <<"D", "e", "b", "u", "g">>
S_log_ == <<"l", "o", "g", "_">>
S_empty == <<>>

Min(a, b) == IF a <= b THEN a ELSE b

\* the first n characters of s (all of s when it is shorter)
Take(s, n) == SubSeq(s, 1, Min(n, Len(s)))
\* s + n for a char pointer s
Drop(s, n) == SubSeq(s, n + 1, Len(s))

\* strncmp(a, b, n) == 0: the comparison stops at n characters or at the
\* NUL of the shorter string, which differs from any character.
StrncmpEq(a, b, n) == Take(a, n) = Take(b, n)
StrcmpEq(a, b) == a = b

\* mutant: the "LOG_" prefix is not skipped
StripLogPrefix_Kept(log_level) == log_level

\* lines 255-257: skip one leading "LOG_"
StripLogPrefix(log_level) ==
    IF StrncmpEq(log_level, S_LOG_, 4) THEN Drop(log_level, 4) ELSE log_level

\* mutant: a name that matches nothing resets the level to the default
LevelFromString_Reset(lvl_str, cur) ==
    IF StrcmpEq(lvl_str, S_FULL) THEN LOG_FULL
    ELSE IF StrcmpEq(lvl_str, S_DEBUG) THEN LOG_DEBUG
    ELSE IF StrcmpEq(lvl_str, S_TRACE) THEN LOG_TRACE
    ELSE IF StrcmpEq(lvl_str, S_INFO) THEN LOG_INFO
    ELSE IF StrcmpEq(lvl_str, S_WARN) THEN LOG_WARN
    ELSE IF StrcmpEq(lvl_str, S_ERROR) THEN LOG_ERROR
    ELSE IF StrcmpEq(lvl_str, S_FATAL) THEN LOG_FATAL
    ELSE IF StrcmpEq(lvl_str, S_QUIET) THEN LOG_QUITE
    ELSE LOG_INFO

\* lines 260-275: the level a name selects; cur when no name matches
LevelFromString(lvl_str, cur) ==
    IF StrcmpEq(lvl_str, S_FULL) THEN LOG_FULL
    ELSE IF StrcmpEq(lvl_str, S_DEBUG) THEN LOG_DEBUG
    ELSE IF StrcmpEq(lvl_str, S_TRACE) THEN LOG_TRACE
    ELSE IF StrcmpEq(lvl_str, S_INFO) THEN LOG_INFO
    ELSE IF StrcmpEq(lvl_str, S_WARN) THEN LOG_WARN
    ELSE IF StrcmpEq(lvl_str, S_ERROR) THEN LOG_ERROR
    ELSE IF StrcmpEq(lvl_str, S_FATAL) THEN LOG_FATAL
    ELSE IF StrcmpEq(lvl_str, S_QUIET) THEN LOG_QUITE
    ELSE cur

log_level_to_string(level) ==
    CASE level = LOG_FATAL -> S_FATAL
      [] level = LOG_ERROR -> S_ERROR
      [] level = LOG_TIMEOUT -> S_TIMEOUT
      [] level = LOG_WARN -> S_WARN
      [] level = LOG_INFO -> S_INFO
      [] level = LOG_TRACE -> S_TRACE
      [] level = LOG_DEBUG -> S_DEBUG
      [] OTHER -> S_UNKNOWN

log_level_to_color(level) ==
    CASE level = LOG_FATAL -> "RED"
      [] level = LOG_ERROR -> "ORANGE"
      [] level = LOG_TIMEOUT -> "MAGENTA"
      [] level = LOG_WARN -> "YELLOW"
      [] level = LOG_INFO -> "CYAN"
      [] level = LOG_TRACE -> "PINK"
      [] level = LOG_DEBUG -> "GRAY"
      [] OTHER -> "WHITE"

\* ---------------------------------------------------------- rendering
\* A message is the printf expansion of the call's format and arguments:
\* id names its text, len is the length of the expansion.
NoId == 0
FrameId == -1     \* text of a backtrace frame
NestedId == -2    \* message logged from inside a callback
SignalId == -3    \* "Caught signal %d (%s). Backtrace:"
NoMsg == [id |-> NoId, len |-> 0]
NoBody == [id |-> NoId, len |-> 0, dots |-> FALSE]
NoText == [date |-> "", color |-> "", tag |-> <<>>, thread |-> "",
           body |-> NoBody]

\* the bytes of char message[1024] and of the four bytes that follow it
\* on the stack: the k-th character of the expansion is the number k
NUL == 0
Dot == -1            \* '.'
Indeterminate == -2  \* a byte of the array not written yet
Beyond == -3         \* a byte that is not part of the array
MessageMemory ==
    [i \in 0..(MESSAGE_SIZE + 3) |->
         IF i < MESSAGE_SIZE THEN Indeterminate ELSE Beyond]

\* line 137: vsnprintf(message, size, fmt, args) with an expansion of n
\* characters writes the first min(n, size - 1) of them and a NUL
Vsnprintf(mem, size, n) ==
    [i \in DOMAIN mem |->
         IF i < Min(n, size - 1) THEN i + 1
         ELSE IF i = Min(n, size - 1) THEN NUL
         ELSE mem[i]]

\* mutant: the loop runs one place too far and overwrites the NUL
DotLoop_OffByOne(mem, size) ==
    [i \in DOMAIN mem |->
         IF i \in (size - 3)..(size - 1) THEN Dot ELSE mem[i]]

\* lines 140-142: for (i = size - 4; i < size - 1; i++) message[i] = '.'
DotLoop(mem, size) ==
    [i \in DOMAIN mem |->
         IF i \in (size - 4)..(size - 2) THEN Dot ELSE mem[i]]

\* lines 135-143
MessageBuffer(n) ==
    LET written == Vsnprintf(MessageMemory, MESSAGE_SIZE, n)
    IN  IF n >= MESSAGE_SIZE THEN DotLoop(written, MESSAGE_SIZE)
                             ELSE written

\* the characters "%s" prints: those before the first NUL
\* (the index of the first NUL, looked for among the first bytes and
\* then among all of them)
FirstNul(mem, S) ==
    LET nuls == {i \in S : mem[i] = NUL}
    IN  IF nuls = {} THEN MESSAGE_SIZE + 4
        ELSE CHOOSE i \in nuls : \A j \in nuls : i <= j
Strlen(mem) ==
    IF \E i \in 0..31 : mem[i] = NUL
        THEN FirstNul(mem, 0..31)
        ELSE FirstNul(mem, DOMAIN mem)

\* lines 135-151: the message as it is printed into both texts
ExpandMessage(msg) ==
    LET buf == MessageBuffer(msg.len)
        len == Strlen(buf)
    IN  [id |-> msg.id, len |-> len,
         dots |-> len >= 3 /\ \A i \in (len - 3)..(len - 1) : buf[i] = Dot]

\* lines 113-119: the date prefix, empty when show_date is off
DateBuffer(date) == IF date THEN "DATE " ELSE ""

\* lines 121-133: the thread prefix, empty when show_thread is off
ThreadBuffer(thread, t) ==
    IF ~thread THEN ""
    ELSE IF t = MainThread THEN "[main thread] " ELSE "[thread: tid] "

\* lines 145-148
ColoredText(level, date, thread, t, msg) ==
    [date |-> DateBuffer(date), color |-> log_level_to_color(level),
     tag |-> log_level_to_string(level), thread |-> ThreadBuffer(thread, t),
     body |-> ExpandMessage(msg)]

\* lines 149-151
RawText(level, date, thread, t, msg) ==
    [date |-> DateBuffer(date), color |-> "",
     tag |-> log_level_to_string(level), thread |-> ThreadBuffer(thread, t),
     body |-> ExpandMessage(msg)]

\* lines 161-178: the first record of log_backtrace(init_msg); date is
\* what strftime left in _init_msg, nothing when show_date is off
InitMsg(signo) == [id |-> SignalId, len |-> signo]
InitRaw(date, signo) ==
    [date |-> DateBuffer(date), color |-> "", tag |-> S_FATAL, thread |-> "",
     body |-> [id |-> SignalId, len |-> signo, dots |-> FALSE]]
InitColored(date, signo) ==
    [InitRaw(date, signo) EXCEPT !.color = log_level_to_color(LOG_FATAL)]

\* a backtrace frame as log_backtrace prints it: "  symbols[i]"
FrameText(i) ==
    [date |-> "", color |-> "", tag |-> <<>>, thread |-> "",
     body |-> [id |-> FrameId, len |-> i, dots |-> FALSE]]

\* --------------------------------------------------------------- frames
Blank == [level |-> 0, msg |-> NoMsg, date |-> FALSE, colored |-> NoText,
          raw |-> NoText, file |-> NULL, cont |-> "none", i |-> 0,
          nptrs |-> 0, symbols |-> FALSE, macro |-> FALSE, code |-> 0,
          str |-> <<>>, flags |-> <<FALSE, FALSE, FALSE>>,
          cb |-> NoCallback, path |-> "", init_msg |-> FALSE, signo |-> 0]
NoFrame == [pc |-> "none", loc |-> Blank]
NoCall == [fn |-> "none", name |-> <<>>, level |-> 0, msg |-> NoMsg,
           macro |-> FALSE, threshold |-> 0, path |-> "",
           file |-> NULL, callback |-> NoCallback, cb |-> 0,
           lines |-> [p \in {"a.log", "b.log", "/no/such/dir/x.log"} |-> 0]]
Void == [fn |-> "none", val |-> 0]

\* getenv(name) is NULL, or the value of the variable
Unset(val) == [set |-> FALSE, val |-> val]
NoEnv == [LOG_LEVEL |-> Unset(<<>>), LOG_FILE |-> Unset("")]

Paths == {"a.log", "b.log", "/no/such/dir/x.log"}
Openable == {"a.log", "b.log"}
FreeHandle == [state |-> "free", path |-> "", by |-> "none", closes |-> 0]

Running == process.state = "running"
Alive(t) == Running /\ (t = MainThread \/ spawned)

\* ------------------------------------------- core_utils logger: state
\* enum log_level of core_utils/logger.h
DEBUG == 0
INFO == 1
WARNING == 2
ERROR == 3
TIMEOUT == 4
FATAL == 5
CoreLevels == DEBUG..FATAL

\* FILE pointers: outfile is NULL, stderr, or the file that was opened
NoOutfile == "NULL"
STDOUT == "stdout"
STDERR == "stderr"
CoreFile == "file.log"
Streams == {STDOUT, STDERR, CoreFile}
\* core_utils/Logger/logger.c lines 31-37
DefaultOptions ==
    [log_level |-> DEBUG, show_date |-> FALSE, show_thread_id |-> FALSE]

\* mutant: the threshold starts at DEBUG and the date is not shown
Init_Debug ==
    /\ log_file = NULL
    /\ log_mutex = 0
    /\ log_callback = NoCallback
    /\ current_log_level = LOG_DEBUG
    /\ show_date = FALSE
    /\ show_thread = TRUE
    /\ log_trace_on_fatal = TRUE
    /\ pc = [t \in Threads |-> "idle"]
    /\ loc = [t \in Threads |-> Blank]
    /\ outer = [t \in Threads |-> NoFrame]
    /\ retval = [t \in Threads |-> Void]
    /\ handle = [h \in Handles |-> FreeHandle]
    /\ disk = [p \in Paths |-> <<>>]
    /\ cbLog = <<>>
    /\ acquired = <<>>
    /\ process = [state |-> "running", code |-> 0]
    /\ spawned = FALSE
    /\ nrecords = [t \in Threads |-> 0]
    /\ call = [t \in Threads |-> NoCall]
    /\ env = NoEnv
    /\ outfile = NoOutfile
    /\ logger_options = DefaultOptions
    /\ streams = [s \in Streams |-> <<>>]
    /\ fileCalls = <<>>
    /\ disposition = [s \in Signals |-> "logger_signal_handler"]
    /\ heap = <<>>

\* static initialisers, lines 57-63, and those of the core_utils logger;
\* the constructor logger_init (lines 221-233) has installed the handler;
\* no thread is inside the logger
Init ==
    /\ log_file = NULL
    /\ log_mutex = 0
    /\ log_callback = NoCallback
    /\ current_log_level = LOG_INFO
    /\ show_date = TRUE
    /\ show_thread = TRUE
    /\ log_trace_on_fatal = TRUE
    /\ pc = [t \in Threads |-> "idle"]
    /\ loc = [t \in Threads |-> Blank]
    /\ outer = [t \in Threads |-> NoFrame]
    /\ retval = [t \in Threads |-> Void]
    /\ handle = [h \in Handles |-> FreeHandle]
    /\ disk = [p \in Paths |-> <<>>]
    /\ cbLog = <<>>
    /\ acquired = <<>>
    /\ process = [state |-> "running", code |-> 0]
    /\ spawned = FALSE
    /\ nrecords = [t \in Threads |-> 0]
    /\ call = [t \in Threads |-> NoCall]
    /\ env = NoEnv
    /\ outfile = NoOutfile
    /\ logger_options = DefaultOptions
    /\ streams = [s \in Streams |-> <<>>]
    /\ fileCalls = <<>>
    /\ disposition = [s \in Signals |-> "logger_signal_handler"]
    /\ heap = <<>>

\* ------------------------------------------------------------ control
Goto(t, label) == /\ pc' = [pc EXCEPT ![t] = label]
                  /\ UNCHANGED <<loc, outer, retval>>

GotoWith(t, label, frame) == /\ pc' = [pc EXCEPT ![t] = label]
                             /\ loc' = [loc EXCEPT ![t] = frame]
                             /\ UNCHANGED <<outer, retval>>

\* return from a logger function: to the caller, or into the callback
\* that made the call
Return(t, fn, val) ==
    IF outer[t] = NoFrame
        THEN /\ pc' = [pc EXCEPT ![t] = "idle"]
             /\ loc' = [loc EXCEPT ![t] = Blank]
             /\ retval' = [retval EXCEPT ![t] = [fn |-> fn, val |-> val]]
             /\ UNCHANGED outer
        ELSE /\ pc' = [pc EXCEPT ![t] = outer[t].pc]
             /\ loc' = [loc EXCEPT ![t] = outer[t].loc]
             /\ retval' = [retval EXCEPT ![t] = [fn |-> fn, val |-> val]]
             /\ outer' = [outer EXCEPT ![t] = NoFrame]

ReturnVoid(t) == Return(t, "none", 0)

\* a call of a logger function by user code of thread t
Call(t, frame) ==
    /\ Alive(t)
    /\ pc[t] = "idle"
    /\ pc' = [pc EXCEPT ![t] = frame.pc]
    /\ loc' = [loc EXCEPT ![t] = frame.loc]
    /\ UNCHANGED <<outer, retval>>

\* ------------------------------------------------------------- mutex
\* pthread_mutex_lock on the default (non-recursive) mutex: the caller
\* waits until the mutex is free, also when it holds the mutex itself
\* mutant: the lock is granted while another thread holds it
MutexLock_NoWait(t) == log_mutex' = t

\* mutant: the owner may take the lock again (a recursive mutex)
MutexLock_Recursive(t) == /\ log_mutex \in {0, t}
                          /\ log_mutex' = t

MutexLock(t) == /\ log_mutex = 0
                /\ log_mutex' = t

MutexUnlock(t) == log_mutex' = 0

\* ------------------------------------------------------------- stdio
\* fopen(path, "a"): a new handle on an openable path, NULL otherwise
CanOpen(path) == path \in Openable
NewHandle == CHOOSE h \in Handles :
                 /\ handle[h].state = "free"
                 /\ \A g \in Handles : handle[g].state = "free" => h <= g
HandleLeft == \E h \in Handles : handle[h].state = "free"

Fopen(h, path, by) ==
    handle' = [handle EXCEPT ![h] = [state |-> "open", path |-> path,
                                     by |-> by, closes |-> 0]]

\* fprintf(file, "%s\n", text); fflush(file)
Fprintf(h, text) ==
    IF h \in Handles /\ handle[h].state = "open"
        THEN disk' = [disk EXCEPT ![handle[h].path] = Append(@, text)]
        ELSE UNCHANGED disk

\* mutant: only a file the logger opened itself is closed
Fclose_OwnOnly(h) ==
    IF h \in Handles /\ handle[h].state = "open"
           /\ handle[h].by = "logger"
        THEN handle' = [handle EXCEPT ![h].state = "closed",
                                      ![h].closes = @ + 1]
        ELSE UNCHANGED handle

\* fclose(file)
Fclose(h) ==
    IF h \in Handles /\ handle[h].state = "open"
        THEN handle' = [handle EXCEPT ![h].state = "closed",
                                      ![h].closes = @ + 1]
        ELSE IF h \in Handles
            THEN handle' = [handle EXCEPT ![h].closes = Min(@ + 1, 2)]
            ELSE UNCHANGED handle

\* ---------------------------------------------- entry points (frames)
\* log_message(level, file, line, func, fmt, ...); macro: the call is the
\* one LOG_FATAL(...) makes, followed by exit(1)
LogMessageFrame(level, msg, macro) ==
    [pc |-> "lm_filter",
     loc |-> [Blank EXCEPT !.level = level, !.msg = msg, !.macro = macro]]

SetFormatOptionsFrame(flags) ==
    [pc |-> "sfo_lock", loc |-> [Blank EXCEPT !.flags = flags]]

SetLogLevelFrame(level) ==
    [pc |-> "sll_lock", loc |-> [Blank EXCEPT !.level = level]]

\* lines 255-257 run before the mutex is taken
SetLogLevelFromStringFrame(log_level) ==
    [pc |-> "sls_lock",
     loc |-> [Blank EXCEPT !.str = StripLogPrefix(log_level)]]

SetLogFileFrame(filename) ==
    [pc |-> "slf_open", loc |-> [Blank EXCEPT !.path = filename]]

\* logger_set_log_fileno starts with logger_close_file()
SetLogFilenoFrame(file) ==
    [pc |-> "cf_check",
     loc |-> [Blank EXCEPT !.file = file, !.cont = "sfn_lock"]]

CloseFileFrame ==
    [pc |-> "cf_check", loc |-> [Blank EXCEPT !.cont = "return"]]

SetCallbackFrame(callback) ==
    [pc |-> "scb_lock", loc |-> [Blank EXCEPT !.cb = callback]]

GetLogLevelFrame == [pc |-> "gll", loc |-> Blank]

SetLogLevelFromEnvFrame == [pc |-> "sle_getenv", loc |-> Blank]

\* default_filename may be NULL
NullPath == ""
SetLogFileFromEnvFrame(default_filename) ==
    [pc |-> "sfe_getenv", loc |-> [Blank EXCEPT !.path = default_filename]]

\* ------------------------------------------------------ user callbacks
\* "cb_record" keeps to the contract: it consumes the texts it is given
\* (as log_on_stdout and the callbacks of the tests do).  "cb_reenter"
\* breaks the contract of logger.h: it also calls a logger function.
Callbacks == {"cb_record", "cb_reenter"}

ReentrantCalls ==
    {LogMessageFrame(l, [id |-> NestedId, len |-> 1], FALSE) :
         l \in {LOG_QUITE, LOG_ERROR, LOG_DEBUG, LOG_FULL}}
    \cup {SetLogLevelFrame(LOG_WARN), SetLogLevelFromStringFrame(S_INFO),
          SetFormatOptionsFrame(<<TRUE, TRUE, TRUE>>),
          SetLogFileFrame("b.log"), SetLogFileFrame("/no/such/dir/x.log"),
          SetLogFilenoFrame(NULL), CloseFileFrame,
          SetCallbackFrame(NoCallback)}

\* log_callback(level, colored, raw), run by thread t; the thread goes on
\* at label after when the callback returns
InvokeCallback(t, level, colored, raw, after) ==
    /\ cbLog' = Append(cbLog, [level |-> level, colored |-> colored,
                               raw |-> raw, thread |-> t,
                               holder |-> log_mutex])
    /\ IF log_callback = "cb_reenter"
           THEN \E f \in ReentrantCalls :
                    /\ f.pc = "slf_open" => HandleLeft
                    /\ pc' = [pc EXCEPT ![t] = f.pc]
                    /\ loc' = [loc EXCEPT ![t] = f.loc]
                    /\ outer' = [outer EXCEPT
                                     ![t] = [pc |-> after, loc |-> loc[t]]]
                    /\ UNCHANGED retval
           ELSE Goto(t, after)

\* ---------------------------------------------------------- log_message
\* return of log_message: to its caller, or to the exit(1) of LOG_FATAL
log_message_return(t) ==
    IF loc[t].macro
        THEN GotoWith(t, "exit", [loc[t] EXCEPT !.code = 1])
        ELSE ReturnVoid(t)

\* mutant: the threshold test drops the records at the threshold itself
Filtered_AtThreshold(level, threshold) ==
    \/ level = LOG_FULL \/ level = LOG_QUITE
    \/ level >= threshold

\* mutant: FATAL is exempt from the threshold test
Filtered_FatalExempt(level, threshold) ==
    \/ level = LOG_FULL \/ level = LOG_QUITE
    \/ (level > threshold /\ level # LOG_FATAL)

\* mutant: the test of line 338 is missing
Filtered_NoSentinelTest(level, threshold) == level > threshold

\* lines 338-341: the conditions of the two early returns
Filtered(level, threshold) ==
    \/ level = LOG_FULL \/ level = LOG_QUITE
    \/ level > threshold

\* lines 338-341: the two early returns; current_log_level is read
\* without the mutex
log_message_filter(t) ==
    /\ Alive(t) /\ pc[t] = "lm_filter"
    /\ IF Filtered(loc[t].level, current_log_level)
           THEN log_message_return(t)
           ELSE Goto(t, "lm_fmt_date")
    /\ UNCHANGED <<config, log_mutex, sinks, acquired, process, harness>>

\* format_log_message, lines 113-119: show_date is read without the mutex
format_log_message_date(t) ==
    /\ Alive(t) /\ pc[t] = "lm_fmt_date"
    /\ GotoWith(t, "lm_fmt_thread", [loc[t] EXCEPT !.date = show_date])
    /\ UNCHANGED <<config, log_mutex, sinks, acquired, process, harness>>

\* format_log_message, lines 121-151: show_thread is read without the
\* mutex, then both texts are rendered
format_log_message_thread(t) ==
    /\ Alive(t) /\ pc[t] = "lm_fmt_thread"
    /\ GotoWith(t, "lm_lock",
           [loc[t] EXCEPT
               !.colored = ColoredText(loc[t].level, loc[t].date,
                                       show_thread, t, loc[t].msg),
               !.raw = RawText(loc[t].level, loc[t].date, show_thread, t,
                               loc[t].msg)])
    /\ UNCHANGED <<config, log_mutex, sinks, acquired, process, harness>>

\* mutant: the emission starts without the mutex
log_message_lock_Skipped(t) ==
    /\ Alive(t) /\ pc[t] = "lm_lock"
    /\ acquired' = Append(acquired, loc[t].msg)
    /\ Goto(t, "lm_cb")
    /\ UNCHANGED <<config, log_mutex, sinks, process, harness>>

\* line 351
log_message_lock(t) ==
    /\ Alive(t) /\ pc[t] = "lm_lock"
    /\ MutexLock(t)
    /\ acquired' = Append(acquired, loc[t].msg)
    /\ Goto(t, "lm_cb")
    /\ UNCHANGED <<config, sinks, process, harness>>

\* lines 353-355
\* mutant: the mutex is released once the callback has been invoked
log_message_callback_Unlocks(t) ==
    /\ Alive(t) /\ pc[t] = "lm_cb"
    /\ log_mutex' = 0
    /\ IF log_callback # NoCallback
           THEN InvokeCallback(t, loc[t].level, loc[t].colored, loc[t].raw,
                               "lm_file")
           ELSE Goto(t, "lm_file") /\ UNCHANGED cbLog
    /\ UNCHANGED <<config, handle, disk, acquired, process, harness>>

log_message_callback(t) ==
    /\ Alive(t) /\ pc[t] = "lm_cb"
    /\ IF log_callback # NoCallback
           THEN InvokeCallback(t, loc[t].level, loc[t].colored, loc[t].raw,
                               "lm_file")
           ELSE Goto(t, "lm_file") /\ UNCHANGED cbLog
    /\ UNCHANGED <<config, log_mutex, handle, disk, acquired, process, harness>>

\* lines 357-360
log_message_file(t) ==
    /\ Alive(t) /\ pc[t] = "lm_file"
    /\ IF log_file # NULL
           THEN Fprintf(log_file, loc[t].raw)
           ELSE UNCHANGED disk
    /\ Goto(t, "lm_unlock")
    /\ UNCHANGED <<config, log_mutex, handle, cbLog, acquired, process, harness>>

\* mutant: the mutex is not released
log_message_unlock_Kept(t) ==
    /\ Alive(t) /\ pc[t] = "lm_unlock"
    /\ Goto(t, "lm_fatal")
    /\ UNCHANGED <<config, log_mutex, sinks, acquired, process, harness>>

\* line 362
log_message_unlock(t) ==
    /\ Alive(t) /\ pc[t] = "lm_unlock"
    /\ MutexUnlock(t)
    /\ Goto(t, "lm_fatal")
    /\ UNCHANGED <<config, sinks, acquired, process, harness>>

\* mutant: the backtrace is emitted whatever log_trace_on_fatal is
log_message_fatal_AlwaysTrace(t) ==
    /\ Alive(t) /\ pc[t] = "lm_fatal"
    /\ IF loc[t].level = LOG_FATAL
           THEN GotoWith(t, "bt_lock",
                         [loc[t] EXCEPT !.cont = "exit",
                                        !.code = EXIT_FAILURE])
           ELSE log_message_return(t)
    /\ UNCHANGED <<config, log_mutex, sinks, acquired, process, harness>>

\* lines 364-369: log_trace_on_fatal is read without the mutex
log_message_fatal(t) ==
    /\ Alive(t) /\ pc[t] = "lm_fatal"
    /\ IF loc[t].level = LOG_FATAL
           THEN IF log_trace_on_fatal
                    THEN GotoWith(t, "bt_lock",
                                  [loc[t] EXCEPT !.cont = "exit",
                                                 !.code = EXIT_FAILURE])
                    ELSE GotoWith(t, "exit",
                                  [loc[t] EXCEPT !.code = EXIT_FAILURE])
           ELSE log_message_return(t)
    /\ UNCHANGED <<config, log_mutex, sinks, acquired, process, harness>>

\* -------------------------------------------------------- log_backtrace
\* line 155, and the test of line 157
log_backtrace_lock(t) ==
    /\ Alive(t) /\ pc[t] = "bt_lock"
    /\ MutexLock(t)
    /\ Goto(t, IF loc[t].init_msg THEN "bt_init_date" ELSE "bt_capture")
    /\ UNCHANGED <<config, sinks, acquired, process, harness>>

\* lines 161-166
log_backtrace_init_date(t) ==
    /\ Alive(t) /\ pc[t] = "bt_init_date"
    /\ GotoWith(t, "bt_init_file", [loc[t] EXCEPT !.date = show_date])
    /\ UNCHANGED <<config, log_mutex, sinks, acquired, process, harness>>

\* lines 168-171
log_backtrace_init_file(t) ==
    /\ Alive(t) /\ pc[t] = "bt_init_file"
    /\ IF log_file # NULL
           THEN Fprintf(log_file, InitRaw(loc[t].date, loc[t].signo))
           ELSE UNCHANGED disk
    /\ Goto(t, "bt_init_cb")
    /\ UNCHANGED <<config, log_mutex, handle, cbLog, acquired, process,
                   harness>>

\* lines 173-180
log_backtrace_init_callback(t) ==
    /\ Alive(t) /\ pc[t] = "bt_init_cb"
    /\ IF log_callback # NoCallback
           THEN InvokeCallback(t, LOG_FATAL,
                               InitColored(loc[t].date, loc[t].signo),
                               InitRaw(loc[t].date, loc[t].signo),
                               "bt_capture")
           ELSE Goto(t, "bt_capture") /\ UNCHANGED cbLog
    /\ UNCHANGED <<config, log_mutex, handle, disk, acquired, process,
                   harness>>

\* the loop test of line 188 with the test of line 189
FrameLoop(i, nptrs, symbols) ==
    IF i < nptrs /\ symbols THEN "bt_file" ELSE "bt_unlock"

\* lines 183-186: backtrace() fills buffer with nptrs >= 1 addresses, the
\* first one of log_backtrace itself; backtrace_symbols() allocates the
\* symbol strings and returns NULL when it cannot
log_backtrace_capture(t) ==
    /\ Alive(t) /\ pc[t] = "bt_capture"
    /\ \E nptrs \in 1..(MaxFrames + 1), symbols \in BOOLEAN :
           /\ GotoWith(t, FrameLoop(1, nptrs, symbols),
                    [loc[t] EXCEPT !.i = 1, !.nptrs = nptrs,
                                   !.symbols = symbols])
           /\ heap' = Append(heap, [fn |-> "backtrace_symbols",
                                    thread |-> t, ptr |-> symbols])
    /\ UNCHANGED <<config, log_mutex, sinks, acquired, process, spawned,
                   nrecords, call, env, core, disposition>>

\* lines 190-193
log_backtrace_file(t) ==
    /\ Alive(t) /\ pc[t] = "bt_file"
    /\ IF log_file # NULL
           THEN Fprintf(log_file, FrameText(loc[t].i))
           ELSE UNCHANGED disk
    /\ Goto(t, "bt_cb")
    /\ UNCHANGED <<config, log_mutex, handle, cbLog, acquired, process, harness>>

\* lines 195-198
log_backtrace_callback(t) ==
    /\ Alive(t) /\ pc[t] = "bt_cb"
    /\ IF log_callback # NoCallback
           THEN InvokeCallback(t, LOG_FATAL, FrameText(loc[t].i),
                               FrameText(loc[t].i), "bt_next")
           ELSE Goto(t, "bt_next") /\ UNCHANGED cbLog
    /\ UNCHANGED <<config, log_mutex, handle, disk, acquired, process, harness>>

\* line 188: i++ and the loop test
log_backtrace_next(t) ==
    /\ Alive(t) /\ pc[t] = "bt_next"
    /\ GotoWith(t, FrameLoop(loc[t].i + 1, loc[t].nptrs, loc[t].symbols),
                [loc[t] EXCEPT !.i = loc[t].i + 1])
    /\ UNCHANGED <<config, log_mutex, sinks, acquired, process, harness>>

\* lines 202-204, then back in the caller
log_backtrace_unlock(t) ==
    /\ Alive(t) /\ pc[t] = "bt_unlock"
    /\ heap' = Append(heap, [fn |-> "free", thread |-> t,
                             ptr |-> loc[t].symbols])
    /\ MutexUnlock(t)
    /\ Goto(t, loc[t].cont)
    /\ UNCHANGED <<config, sinks, acquired, process, spawned, nrecords, call,
                   env, core, disposition>>

\* ------------------------------------------------ logger_signal_handler
\* line 208: log_trace_on_fatal is read without the mutex; lines 209-212
SignalFrame(signo) ==
    [pc |-> "sh_trace", loc |-> [Blank EXCEPT !.signo = signo]]

logger_signal_handler_trace(t) ==
    /\ Alive(t) /\ pc[t] = "sh_trace"
    /\ IF log_trace_on_fatal
           THEN GotoWith(t, "bt_lock", [loc[t] EXCEPT !.init_msg = TRUE,
                                                     !.cont = "sh_dfl"])
           ELSE Goto(t, "sh_dfl")
    /\ UNCHANGED <<config, log_mutex, sinks, acquired, process, harness>>

\* line 216: signal(signo, SIG_DFL)
logger_signal_handler_dfl(t) ==
    /\ Alive(t) /\ pc[t] = "sh_dfl"
    /\ disposition' = [disposition EXCEPT ![loc[t].signo] = "SIG_DFL"]
    /\ Goto(t, "sh_raise")
    /\ UNCHANGED <<config, log_mutex, sinks, acquired, process, spawned,
                   nrecords, call, env, core, heap>>

\* what a crash signal does to the process: the default action ends it,
\* the handler runs on the stack of the thread the signal is delivered to
Kill(signo) == process' = [state |-> "signaled", code |-> signo]

\* mutant: the handler ends the process through exit()
logger_signal_handler_raise_Exits(t) ==
    /\ Alive(t) /\ pc[t] = "sh_raise"
    /\ process' = [state |-> "exited", code |-> EXIT_FAILURE]
    /\ UNCHANGED <<config, log_mutex, sinks, acquired, pc, loc, outer,
                   retval, harness>>

\* line 217: raise(signo)
logger_signal_handler_raise(t) ==
    /\ Alive(t) /\ pc[t] = "sh_raise"
    /\ IF disposition[loc[t].signo] = "SIG_DFL"
           THEN Kill(loc[t].signo) /\ UNCHANGED <<pc, loc>>
           ELSE /\ pc' = [pc EXCEPT ![t] = SignalFrame(loc[t].signo).pc]
                /\ loc' = [loc EXCEPT ![t] = SignalFrame(loc[t].signo).loc]
                /\ UNCHANGED process
    /\ UNCHANGED <<config, log_mutex, sinks, acquired, outer, retval,
                   harness>>

\* ----------------------------------------------------- exit and deinit
\* exit(status) runs the destructors, of which logger_deinit (lines
\* 235-237) calls logger_close_file, and then ends the process
exit_deinit(t) ==
    /\ Alive(t) /\ pc[t] = "exit"
    /\ GotoWith(t, "cf_check", [loc[t] EXCEPT !.cont = "exit_end"])
    /\ UNCHANGED <<config, log_mutex, sinks, acquired, process, harness>>

exit_end(t) ==
    /\ Alive(t) /\ pc[t] = "exit_end"
    /\ process' = [state |-> "exited", code |-> loc[t].code]
    /\ UNCHANGED <<config, log_mutex, sinks, acquired, pc, loc, outer,
                   retval, harness>>

\* ---------------------------------------------------- logger_close_file
AfterClose(t) ==
    IF loc[t].cont = "return"
        THEN ReturnVoid(t)
        ELSE Goto(t, loc[t].cont)

\* line 320: log_file is read without the mutex
logger_close_file_check(t) ==
    /\ Alive(t) /\ pc[t] = "cf_check"
    /\ IF log_file # NULL THEN Goto(t, "cf_lock") ELSE AfterClose(t)
    /\ UNCHANGED <<config, log_mutex, sinks, acquired, process, harness>>

\* line 321
logger_close_file_lock(t) ==
    /\ Alive(t) /\ pc[t] = "cf_lock"
    /\ MutexLock(t)
    /\ Goto(t, "cf_close")
    /\ UNCHANGED <<config, sinks, acquired, process, harness>>

\* mutant: the reference to the closed file is kept
logger_close_file_close_KeepsReference(t) ==
    /\ Alive(t) /\ pc[t] = "cf_close"
    /\ Fclose(log_file)
    /\ Goto(t, "cf_unlock")
    /\ UNCHANGED <<config, log_mutex, disk, cbLog, acquired, process, harness>>

\* lines 322-323
logger_close_file_close(t) ==
    /\ Alive(t) /\ pc[t] = "cf_close"
    /\ Fclose(log_file)
    /\ log_file' = NULL
    /\ Goto(t, "cf_unlock")
    /\ UNCHANGED <<log_callback, current_log_level, show_date, show_thread,
                   log_trace_on_fatal, log_mutex, disk, cbLog, acquired,
                   process, harness>>

\* line 324
logger_close_file_unlock(t) ==
    /\ Alive(t) /\ pc[t] = "cf_unlock"
    /\ MutexUnlock(t)
    /\ AfterClose(t)
    /\ UNCHANGED <<config, sinks, acquired, process, harness>>

\* -------------------------------------------- logger_set_format_options
logger_set_format_options_lock(t) ==
    /\ Alive(t) /\ pc[t] = "sfo_lock"
    /\ MutexLock(t)
    /\ Goto(t, "sfo_date")
    /\ UNCHANGED <<config, sinks, acquired, process, harness>>

\* line 242
logger_set_format_options_date(t) ==
    /\ Alive(t) /\ pc[t] = "sfo_date"
    /\ show_date' = loc[t].flags[1]
    /\ Goto(t, "sfo_thread")
    /\ UNCHANGED <<log_file, log_callback, current_log_level, show_thread,
                   log_trace_on_fatal, log_mutex, sinks, acquired, process, harness>>

\* line 243
logger_set_format_options_thread(t) ==
    /\ Alive(t) /\ pc[t] = "sfo_thread"
    /\ show_thread' = loc[t].flags[2]
    /\ Goto(t, "sfo_trace")
    /\ UNCHANGED <<log_file, log_callback, current_log_level, show_date,
                   log_trace_on_fatal, log_mutex, sinks, acquired, process, harness>>

\* line 244
logger_set_format_options_trace(t) ==
    /\ Alive(t) /\ pc[t] = "sfo_trace"
    /\ log_trace_on_fatal' = loc[t].flags[3]
    /\ Goto(t, "sfo_unlock")
    /\ UNCHANGED <<log_file, log_callback, current_log_level, show_date,
                   show_thread, log_mutex, sinks, acquired, process, harness>>

\* line 245
logger_set_format_options_unlock(t) ==
    /\ Alive(t) /\ pc[t] = "sfo_unlock"
    /\ MutexUnlock(t)
    /\ ReturnVoid(t)
    /\ UNCHANGED <<config, sinks, acquired, process, harness>>

\* ------------------------------------------------- logger_set_log_level
logger_set_log_level_lock(t) ==
    /\ Alive(t) /\ pc[t] = "sll_lock"
    /\ MutexLock(t)
    /\ Goto(t, "sll_set")
    /\ UNCHANGED <<config, sinks, acquired, process, harness>>

\* line 250
logger_set_log_level_set(t) ==
    /\ Alive(t) /\ pc[t] = "sll_set"
    /\ current_log_level' = loc[t].level
    /\ Goto(t, "sll_unlock")
    /\ UNCHANGED <<log_file, log_callback, show_date, show_thread,
                   log_trace_on_fatal, log_mutex, sinks, acquired, process, harness>>

\* line 251
logger_set_log_level_unlock(t) ==
    /\ Alive(t) /\ pc[t] = "sll_unlock"
    /\ MutexUnlock(t)
    /\ ReturnVoid(t)
    /\ UNCHANGED <<config, sinks, acquired, process, harness>>

\* ------------------------------------- logger_set_log_level_from_string
\* line 259
logger_set_log_level_from_string_lock(t) ==
    /\ Alive(t) /\ pc[t] = "sls_lock"
    /\ MutexLock(t)
    /\ Goto(t, "sls_set")
    /\ UNCHANGED <<config, sinks, acquired, process, harness>>

\* lines 260-275
logger_set_log_level_from_string_set(t) ==
    /\ Alive(t) /\ pc[t] = "sls_set"
    /\ current_log_level' = LevelFromString(loc[t].str, current_log_level)
    /\ Goto(t, "sls_unlock")
    /\ UNCHANGED <<log_file, log_callback, show_date, show_thread,
                   log_trace_on_fatal, log_mutex, sinks, acquired, process, harness>>

\* line 276
logger_set_log_level_from_string_unlock(t) ==
    /\ Alive(t) /\ pc[t] = "sls_unlock"
    /\ MutexUnlock(t)
    /\ ReturnVoid(t)
    /\ UNCHANGED <<config, sinks, acquired, process, harness>>

\* ---------------------------------------- logger_set_log_level_from_env
\* mutant: the value of LOG_LEVEL is compared with its "LOG_" prefix
logger_set_log_level_from_env_Raw(t) ==
    /\ Alive(t) /\ pc[t] = "sle_getenv"
    /\ IF env.LOG_LEVEL.set
           THEN GotoWith(t, "sls_lock",
                         [loc[t] EXCEPT !.str = env.LOG_LEVEL.val])
           ELSE ReturnVoid(t)
    /\ UNCHANGED <<config, log_mutex, sinks, acquired, process, harness>>

\* lines 280-283: getenv("LOG_LEVEL"), then the call of
\* logger_set_log_level_from_string up to its pthread_mutex_lock
logger_set_log_level_from_env(t) ==
    /\ Alive(t) /\ pc[t] = "sle_getenv"
    /\ IF env.LOG_LEVEL.set
           THEN GotoWith(t, "sls_lock",
                         [loc[t] EXCEPT
                              !.str = StripLogPrefix(env.LOG_LEVEL.val)])
           ELSE ReturnVoid(t)
    /\ UNCHANGED <<config, log_mutex, sinks, acquired, process, harness>>

\* -------------------------------------------------- logger_set_log_file
\* lines 287-291: fopen, return false when it fails, else close the
\* current file
\* mutant: the installed file is closed before the new one is opened
logger_set_log_file_open_ClosesFirst(t) ==
    /\ Alive(t) /\ pc[t] = "slf_open"
    /\ IF CanOpen(loc[t].path)
           THEN /\ Fopen(NewHandle, loc[t].path, "logger")
                /\ GotoWith(t, "cf_check",
                            [loc[t] EXCEPT !.file = NewHandle,
                                           !.cont = "slf_lock"])
                /\ UNCHANGED log_file
           ELSE /\ Return(t, "logger_set_log_file", 0)
                /\ Fclose(log_file)
                /\ log_file' = NULL
    /\ UNCHANGED <<log_callback, current_log_level, show_date, show_thread,
                   log_trace_on_fatal, log_mutex, disk, cbLog, acquired,
                   process, harness>>

\* mutant: the file installed before is left open
logger_set_log_file_open_KeepsOld(t) ==
    /\ Alive(t) /\ pc[t] = "slf_open"
    /\ IF CanOpen(loc[t].path)
           THEN /\ Fopen(NewHandle, loc[t].path, "logger")
                /\ GotoWith(t, "slf_lock", [loc[t] EXCEPT !.file = NewHandle])
           ELSE /\ Return(t, "logger_set_log_file", 0)
                /\ UNCHANGED handle
    /\ UNCHANGED <<config, log_mutex, disk, cbLog, acquired, process, harness>>

logger_set_log_file_open(t) ==
    /\ Alive(t) /\ pc[t] = "slf_open"
    /\ IF CanOpen(loc[t].path)
           THEN /\ Fopen(NewHandle, loc[t].path, "logger")
                /\ GotoWith(t, "cf_check",
                            [loc[t] EXCEPT !.file = NewHandle,
                                           !.cont = "slf_lock"])
           ELSE /\ Return(t, "logger_set_log_file", 0)
                /\ UNCHANGED handle
    /\ UNCHANGED <<config, log_mutex, disk, cbLog, acquired, process, harness>>

\* line 292
logger_set_log_file_lock(t) ==
    /\ Alive(t) /\ pc[t] = "slf_lock"
    /\ MutexLock(t)
    /\ Goto(t, "slf_set")
    /\ UNCHANGED <<config, sinks, acquired, process, harness>>

\* line 293
logger_set_log_file_set(t) ==
    /\ Alive(t) /\ pc[t] = "slf_set"
    /\ log_file' = loc[t].file
    /\ Goto(t, "slf_unlock")
    /\ UNCHANGED <<log_callback, current_log_level, show_date, show_thread,
                   log_trace_on_fatal, log_mutex, sinks, acquired, process, harness>>

\* lines 294-295
logger_set_log_file_unlock(t) ==
    /\ Alive(t) /\ pc[t] = "slf_unlock"
    /\ MutexUnlock(t)
    /\ Return(t, "logger_set_log_file", 1)
    /\ UNCHANGED <<config, sinks, acquired, process, harness>>

\* ----------------------------------------- logger_set_log_file_from_env
\* mutant: default_filename is tried when LOG_FILE is not set
\* and is opened in its stead when it is set
logger_set_log_file_from_env_Default(t) ==
    /\ Alive(t) /\ pc[t] = "sfe_getenv"
    /\ IF loc[t].path # NullPath
           THEN Goto(t, "slf_open")
           ELSE IF env.LOG_FILE.set
               THEN GotoWith(t, "slf_open",
                             [loc[t] EXCEPT !.path = env.LOG_FILE.val])
               ELSE Return(t, "logger_set_log_file_from_env", 0)
    /\ UNCHANGED <<config, log_mutex, sinks, acquired, process, harness>>

\* lines 299-308: getenv("LOG_FILE"); the value returned is that of the
\* call of logger_set_log_file, or false
logger_set_log_file_from_env(t) ==
    /\ Alive(t) /\ pc[t] = "sfe_getenv"
    /\ IF env.LOG_FILE.set
           THEN GotoWith(t, "slf_open",
                         [loc[t] EXCEPT !.path = env.LOG_FILE.val])
           ELSE IF loc[t].path # NullPath
               THEN Goto(t, "slf_open")
               ELSE Return(t, "logger_set_log_file_from_env", 0)
    /\ UNCHANGED <<config, log_mutex, sinks, acquired, process, harness>>

\* ------------------------------------------------ logger_set_log_fileno
\* line 313 (line 312 is logger_close_file)
logger_set_log_fileno_lock(t) ==
    /\ Alive(t) /\ pc[t] = "sfn_lock"
    /\ MutexLock(t)
    /\ Goto(t, "sfn_set")
    /\ UNCHANGED <<config, sinks, acquired, process, harness>>

\* line 314
logger_set_log_fileno_set(t) ==
    /\ Alive(t) /\ pc[t] = "sfn_set"
    /\ log_file' = loc[t].file
    /\ Goto(t, "sfn_unlock")
    /\ UNCHANGED <<log_callback, current_log_level, show_date, show_thread,
                   log_trace_on_fatal, log_mutex, sinks, acquired, process, harness>>

\* lines 315-316
logger_set_log_fileno_unlock(t) ==
    /\ Alive(t) /\ pc[t] = "sfn_unlock"
    /\ MutexUnlock(t)
    /\ Return(t, "logger_set_log_fileno", 1)
    /\ UNCHANGED <<config, sinks, acquired, process, harness>>

\* -------------------------------------------------- logger_set_callback
logger_set_callback_lock(t) ==
    /\ Alive(t) /\ pc[t] = "scb_lock"
    /\ MutexLock(t)
    /\ Goto(t, "scb_set")
    /\ UNCHANGED <<config, sinks, acquired, process, harness>>

\* mutant: registering a callback also resets the threshold
logger_set_callback_set_ResetsLevel(t) ==
    /\ Alive(t) /\ pc[t] = "scb_set"
    /\ log_callback' = loc[t].cb
    /\ current_log_level' = LOG_FULL
    /\ Goto(t, "scb_unlock")
    /\ UNCHANGED <<log_file, show_date, show_thread, log_trace_on_fatal,
                   log_mutex, sinks, acquired, process, harness>>

\* line 330
logger_set_callback_set(t) ==
    /\ Alive(t) /\ pc[t] = "scb_set"
    /\ log_callback' = loc[t].cb
    /\ Goto(t, "scb_unlock")
    /\ UNCHANGED <<log_file, current_log_level, show_date, show_thread,
                   log_trace_on_fatal, log_mutex, sinks, acquired, process, harness>>

\* line 331
logger_set_callback_unlock(t) ==
    /\ Alive(t) /\ pc[t] = "scb_unlock"
    /\ MutexUnlock(t)
    /\ ReturnVoid(t)
    /\ UNCHANGED <<config, sinks, acquired, process, harness>>

\* ------------------------------------------------- logger_get_log_level
\* lines 387-389: current_log_level is read without the mutex
logger_get_log_level(t) ==
    /\ Alive(t) /\ pc[t] = "gll"
    /\ Return(t, "logger_get_log_level", current_log_level)
    /\ UNCHANGED <<config, log_mutex, sinks, acquired, process, harness>>

\* ------------------------------------------- accesses to the statics
\* the static variables the step at a label reads or writes
Accesses(label) ==
    CASE label \in {"lm_filter", "gll", "sll_set", "sls_set"} ->
             {"current_log_level"}
      [] label \in {"lm_fmt_date", "sfo_date", "bt_init_date"} ->
             {"show_date"}
      [] label \in {"lm_fmt_thread", "sfo_thread"} -> {"show_thread"}
      [] label \in {"lm_fatal", "sfo_trace", "sh_trace"} ->
             {"log_trace_on_fatal"}
      [] label \in {"lm_cb", "bt_cb", "bt_init_cb", "scb_set"} ->
             {"log_callback"}
      [] label \in {"lm_file", "bt_file", "bt_init_file", "cf_check",
                    "cf_close", "slf_set", "sfn_set"} -> {"log_file"}
      [] OTHER -> {}

\* ------------------------------------------------ core_utils logger
\* The functions of core_utils/Logger/logger.c take no lock and call
\* nothing of the logger above; each is one step of the calling thread.
CoreCall(t, fn, val) ==
    /\ Alive(t) /\ pc[t] = "idle"
    /\ retval' = [retval EXCEPT ![t] = [fn |-> fn, val |-> val]]
    /\ call' = [call EXCEPT ![t] = [NoCall EXCEPT !.fn = fn]]
    /\ UNCHANGED <<config, log_mutex, sinks, acquired, process, pc, loc,
                   outer, spawned, env, disposition, heap>>

\* lines 39-41
logger_set_options(t, options) ==
    /\ \E o \in options : logger_options' = o
    /\ CoreCall(t, "logger_set_options", 0)
    /\ UNCHANGED <<outfile, streams, fileCalls, nrecords>>

\* open_file(filename, "w"), that is fopen: NULL when the file cannot be
\* opened
OpenFile(filename) ==
    [fn |-> "open_file", file |-> filename, ok |-> filename = CoreFile]
CloseFile(file) == [fn |-> "close_file", file |-> file, ok |-> TRUE]
Opens == Len(SelectSeq(fileCalls, LAMBDA c : c.fn = "open_file"))

\* mutant: a file is opened while an outfile is installed
logger_set_outfile_NoTest(t, filenames) ==
    /\ \E filename \in filenames :
           IF filename = "stderr"
               THEN /\ outfile' = STDERR
                    /\ CoreCall(t, "logger_set_outfile", 1)
                    /\ UNCHANGED <<streams, fileCalls>>
               ELSE /\ Opens < MaxHandles
                    /\ fileCalls' = Append(fileCalls, OpenFile(filename))
                    /\ IF OpenFile(filename).ok
                           THEN /\ outfile' = filename
                                /\ streams' =
                                       [streams EXCEPT ![filename] = <<>>]
                                /\ CoreCall(t, "logger_set_outfile", 1)
                           ELSE /\ CoreCall(t, "logger_set_outfile", 0)
                                /\ UNCHANGED <<outfile, streams>>
    /\ UNCHANGED <<logger_options, nrecords>>

\* lines 43-57; open_file(filename, "w") empties the file it opens
logger_set_outfile(t, filenames) ==
    /\ \E filename \in filenames :
           IF outfile # NoOutfile
               THEN /\ CoreCall(t, "logger_set_outfile", 0)
                    /\ UNCHANGED <<outfile, streams, fileCalls>>
           ELSE IF filename = "stderr"
               THEN /\ outfile' = STDERR
                    /\ CoreCall(t, "logger_set_outfile", 1)
                    /\ UNCHANGED <<streams, fileCalls>>
               ELSE /\ Opens < MaxHandles
                    /\ fileCalls' = Append(fileCalls, OpenFile(filename))
                    /\ IF OpenFile(filename).ok
                           THEN /\ outfile' = filename
                                /\ streams' =
                                       [streams EXCEPT ![filename] = <<>>]
                                /\ CoreCall(t, "logger_set_outfile", 1)
                           ELSE /\ CoreCall(t, "logger_set_outfile", 0)
                                /\ UNCHANGED <<outfile, streams>>
    /\ UNCHANGED <<logger_options, nrecords>>

\* lines 59-63
logger_close_outfile(t) ==
    /\ IF outfile # NoOutfile /\ outfile # STDERR
           THEN fileCalls' = Append(fileCalls, CloseFile(outfile))
           ELSE UNCHANGED fileCalls
    /\ outfile' = NoOutfile
    /\ CoreCall(t, "logger_close_outfile", 0)
    /\ UNCHANGED <<logger_options, streams, nrecords>>

\* what one group of _fprintf calls of logger_log prints
CoreLine(level, msg, colored, date, thread) ==
    [level |-> level, id |-> msg.id, colored |-> colored, date |-> date,
     thread |-> thread]

\* lines 93-120: the stream the coloured line goes to
CoreOut(level) ==
    IF outfile # NoOutfile THEN outfile
    ELSE IF level \in {DEBUG, INFO, WARNING} THEN STDOUT
    ELSE STDERR

\* lines 65-135
logger_log(t, levels, msgs) ==
    /\ nrecords[t] < MaxRecords
    /\ \E level \in levels, msg \in msgs :
           LET toFile == outfile # NoOutfile /\ outfile # STDERR
               first ==
                   IF toFile
                       THEN [streams EXCEPT ![outfile] =
                                Append(@, CoreLine(level, msg, FALSE, TRUE,
                                                   TRUE))]
                       ELSE streams
               second ==
                   \/ /\ level >= logger_options.log_level
                      /\ outfile = NoOutfile \/ outfile = STDERR
                   \/ level = FATAL
           IN  streams' =
                   IF second
                       THEN [first EXCEPT ![CoreOut(level)] =
                                Append(@, CoreLine(level, msg, TRUE,
                                           logger_options.show_date,
                                           logger_options.show_thread_id))]
                       ELSE first
    /\ nrecords' = [nrecords EXCEPT ![t] = @ + 1]
    /\ CoreCall(t, "logger_log", 0)
    /\ UNCHANGED <<outfile, logger_options, fileCalls>>

\* ------------------------------------------------- calls made by users
\* LOG(level, ...) (macro = FALSE) or LOG_FATAL(...) (macro = TRUE), with
\* the logger state the call was issued in
UserLog(t, levels, msgs, macros) ==
    /\ nrecords[t] < MaxRecords
    /\ \E level \in levels, msg \in msgs, macro \in macros :
           /\ macro => level = LOG_FATAL
           /\ Call(t, LogMessageFrame(level, msg, macro))
           /\ call' = [call EXCEPT ![t] =
                  [fn |-> "log_message", name |-> <<>>, level |-> level,
                   msg |-> msg, macro |-> macro, path |-> "",
                   threshold |-> current_log_level, file |-> log_file,
                   callback |-> log_callback, cb |-> Len(cbLog),
                   lines |-> [p \in Paths |-> Len(disk[p])]]]
    /\ nrecords' = [nrecords EXCEPT ![t] = @ + 1]
    /\ UNCHANGED <<config, log_mutex, sinks, acquired, process, spawned, env,
                   core, disposition, heap>>

\* a log call of a thread of Test(logger, thread_safety)
ThreadLog(t, levels, msgs) ==
    /\ nrecords[t] < MaxRecords
    /\ \E level \in levels, msg \in msgs :
           /\ Call(t, LogMessageFrame(level, msg, FALSE))
           /\ call' = [call EXCEPT ![t] =
                  [NoCall EXCEPT !.fn = "log_message", !.level = level,
                                 !.msg = msg]]
    /\ nrecords' = [nrecords EXCEPT ![t] = @ + 1]
    /\ UNCHANGED <<config, log_mutex, sinks, acquired, process, spawned, env,
                   core, disposition, heap>>

UserCall(t, frames) ==
    /\ \E f \in frames : Call(t, f)
    /\ call' = [call EXCEPT ![t] = NoCall]
    /\ UNCHANGED <<config, log_mutex, sinks, acquired, process, spawned,
                   nrecords, env, core, disposition, heap>>

UserSetFormatOptions(t, flags) ==
    UserCall(t, {SetFormatOptionsFrame(f) : f \in flags})

UserSetLogLevel(t, levels) ==
    UserCall(t, {SetLogLevelFrame(l) : l \in levels})

UserSetLogLevelFromString(t, names) ==
    /\ \E n \in names :
           /\ Call(t, SetLogLevelFromStringFrame(n))
           /\ call' = [call EXCEPT ![t] =
                  [NoCall EXCEPT !.fn = "logger_set_log_level_from_string",
                                 !.name = n,
                                 !.threshold = current_log_level]]
    /\ UNCHANGED <<config, log_mutex, sinks, acquired, process, spawned,
                   nrecords, env, core, disposition, heap>>

UserSetLogFile(t, paths) ==
    /\ HandleLeft
    /\ \E p \in paths :
           /\ Call(t, SetLogFileFrame(p))
           /\ call' = [call EXCEPT ![t] =
                  [NoCall EXCEPT !.fn = "logger_set_log_file",
                                 !.path = p, !.file = log_file]]
    /\ UNCHANGED <<config, log_mutex, sinks, acquired, process, spawned,
                   nrecords, env, core, disposition, heap>>

UserCloseFile(t) ==
    /\ Call(t, CloseFileFrame)
    /\ call' = [call EXCEPT ![t] =
           [NoCall EXCEPT !.fn = "logger_close_file", !.file = log_file]]
    /\ UNCHANGED <<config, log_mutex, sinks, acquired, process, spawned,
                   nrecords, env, core, disposition, heap>>

\* the program ends: exit(code), or the return from main
UserExit(t, codes) ==
    /\ \E c \in codes :
           Call(t, [pc |-> "exit", loc |-> [Blank EXCEPT !.code = c]])
    /\ call' = [call EXCEPT ![t] = NoCall]
    /\ UNCHANGED <<config, log_mutex, sinks, acquired, process, spawned,
                   nrecords, env, core, disposition, heap>>

UserSetCallback(t, callbacks) ==
    UserCall(t, {SetCallbackFrame(c) : c \in callbacks})

\* the level query, made right after the call whose effect it observes
UserGetLogLevel(t) ==
    /\ Call(t, GetLogLevelFrame)
    /\ UNCHANGED <<config, log_mutex, sinks, acquired, process, harness>>

\* setenv(name, value, 1) and unsetenv(name), between two calls
Setenv(t, name, values) ==
    /\ Alive(t) /\ pc[t] = "idle"
    /\ \E v \in values :
           env' = [env EXCEPT ![name] = [set |-> TRUE, val |-> v]]
    /\ env' # env
    /\ call' = [call EXCEPT ![t] = NoCall]
    /\ UNCHANGED <<config, log_mutex, sinks, acquired, process, pc, loc,
                   outer, retval, spawned, nrecords, core, disposition, heap>>

Unsetenv(t, name) ==
    /\ Alive(t) /\ pc[t] = "idle"
    /\ env[name].set
    /\ env' = [env EXCEPT ![name] = NoEnv[name]]
    /\ call' = [call EXCEPT ![t] = NoCall]
    /\ UNCHANGED <<config, log_mutex, sinks, acquired, process, pc, loc,
                   outer, retval, spawned, nrecords, core, disposition, heap>>

UserSetLogLevelFromEnv(t) ==
    /\ Call(t, SetLogLevelFromEnvFrame)
    /\ call' = [call EXCEPT ![t] =
           [NoCall EXCEPT !.fn = "logger_set_log_level_from_env",
                          !.threshold = current_log_level]]
    /\ UNCHANGED <<config, log_mutex, sinks, acquired, process, spawned,
                   nrecords, env, core, disposition, heap>>

UserSetLogFileFromEnv(t, defaults) ==
    /\ HandleLeft
    /\ \E p \in defaults :
           /\ Call(t, SetLogFileFromEnvFrame(p))
           /\ call' = [call EXCEPT ![t] =
                  [NoCall EXCEPT !.fn = "logger_set_log_file_from_env",
                                 !.path = p, !.file = log_file]]
    /\ UNCHANGED <<config, log_mutex, sinks, acquired, process, spawned,
                   nrecords, env, core, disposition, heap>>

\* the user opens a file and hands the handle to the logger
UserSetLogFilenoNew(t, paths) ==
    /\ HandleLeft
    /\ \E p \in paths \cap Openable :
           /\ Fopen(NewHandle, p, "user")
           /\ Call(t, SetLogFilenoFrame(NewHandle))
           /\ call' = [call EXCEPT ![t] =
                  [NoCall EXCEPT !.fn = "logger_set_log_fileno",
                                 !.path = p, !.file = log_file]]
    /\ UNCHANGED <<config, log_mutex, disk, cbLog, acquired, process,
                   spawned, nrecords, env, core, disposition, heap>>

\* a crash signal is delivered to thread t, wherever it is; the process
\* gets one crash signal at most
Deliver(t, signals) ==
    /\ Alive(t)
    /\ \A u \in Threads : loc[u].signo = 0
    /\ \E s \in signals :
           IF disposition[s] = "SIG_DFL"
               THEN Kill(s) /\ UNCHANGED <<pc, loc, call>>
               ELSE /\ pc' = [pc EXCEPT ![t] = SignalFrame(s).pc]
                    /\ loc' = [loc EXCEPT ![t] = SignalFrame(s).loc]
                    /\ call' = [call EXCEPT ![t] =
                           [fn |-> "signal", name |-> <<>>,
                            level |-> LOG_FATAL, msg |-> InitMsg(s),
                            macro |-> FALSE, path |-> "",
                            threshold |-> current_log_level,
                            file |-> log_file, callback |-> log_callback,
                            cb |-> Len(cbLog),
                            lines |-> [p \in Paths |-> Len(disk[p])]]]
                    /\ UNCHANGED process
    /\ UNCHANGED <<config, log_mutex, sinks, acquired, outer, retval,
                   spawned, nrecords, env, core, disposition, heap>>

\* pthread_create of the worker threads by the main thread
Spawn ==
    /\ Running /\ ~spawned /\ pc[MainThread] = "idle"
    /\ spawned' = TRUE
    /\ UNCHANGED <<config, log_mutex, sinks, acquired, process, pc, loc,
                   outer, retval, nrecords, call, env, core, disposition, heap>>

\* ----------------------------------------------------- steps of the code
LogStep(t) ==
    \/ log_message_filter(t)
    \/ format_log_message_date(t)
    \/ format_log_message_thread(t)
    \/ log_message_lock(t)
    \/ log_message_callback(t)
    \/ log_message_file(t)
    \/ log_message_unlock(t)
    \/ log_message_fatal(t)

FatalStep(t) ==
    \/ log_backtrace_lock(t)
    \/ log_backtrace_capture(t)
    \/ log_backtrace_file(t)
    \/ log_backtrace_callback(t)
    \/ log_backtrace_next(t)
    \/ log_backtrace_unlock(t)
    \/ exit_deinit(t)
    \/ exit_end(t)

SignalStep(t) ==
    \/ logger_signal_handler_trace(t)
    \/ log_backtrace_lock(t)
    \/ log_backtrace_init_date(t)
    \/ log_backtrace_init_file(t)
    \/ log_backtrace_init_callback(t)
    \/ log_backtrace_capture(t)
    \/ log_backtrace_file(t)
    \/ log_backtrace_callback(t)
    \/ log_backtrace_next(t)
    \/ log_backtrace_unlock(t)
    \/ logger_signal_handler_dfl(t)
    \/ logger_signal_handler_raise(t)

CloseStep(t) ==
    \/ logger_close_file_check(t)
    \/ logger_close_file_lock(t)
    \/ logger_close_file_close(t)
    \/ logger_close_file_unlock(t)

LevelStep(t) ==
    \/ logger_set_log_level_lock(t)
    \/ logger_set_log_level_set(t)
    \/ logger_set_log_level_unlock(t)

StringStep(t) ==
    \/ logger_set_log_level_from_string_lock(t)
    \/ logger_set_log_level_from_string_set(t)
    \/ logger_set_log_level_from_string_unlock(t)
    \/ logger_get_log_level(t)

FormatStep(t) ==
    \/ logger_set_format_options_lock(t)
    \/ logger_set_format_options_date(t)
    \/ logger_set_format_options_thread(t)
    \/ logger_set_format_options_trace(t)
    \/ logger_set_format_options_unlock(t)

FileStep(t) ==
    \/ logger_set_log_file_open(t)
    \/ logger_set_log_file_lock(t)
    \/ logger_set_log_file_set(t)
    \/ logger_set_log_file_unlock(t)

FilenoStep(t) ==
    \/ logger_set_log_fileno_lock(t)
    \/ logger_set_log_fileno_set(t)
    \/ logger_set_log_fileno_unlock(t)

CallbackStep(t) ==
    \/ logger_set_callback_lock(t)
    \/ logger_set_callback_set(t)
    \/ logger_set_callback_unlock(t)

\* ------------------------------------------------------ specifications
\* the message thread t logs as its k-th record
MsgId(t, k) == 10 * t + k
Msgs(t) == {[id |-> MsgId(t, nrecords[t] + 1), len |-> 10]}
\* the test suite's (false, false, x) and the default (true, true, x)
SomeFlags == {<<d, d, tr>> : d \in BOOLEAN, tr \in BOOLEAN}

\* Spec: a single-threaded program that first configures the logger
\* (threshold, backtrace flag, sink file, callback) and then logs at every
\* level, through LOG and LOG_FATAL.
Setup == \A t \in Threads : nrecords[t] = 0

Next ==
    \/ UserLog(MainThread, LogLevels, Msgs(MainThread), BOOLEAN)
    \/ Setup /\ UserSetLogLevel(MainThread, LogLevels)
    \/ Setup /\ UserSetFormatOptions(MainThread, SomeFlags)
    \/ Setup /\ UserSetLogFile(MainThread, {"a.log"})
    \/ Setup /\ UserCloseFile(MainThread)
    \/ Setup /\ UserSetCallback(MainThread, {NoCallback, "cb_record"})
    \/ LogStep(MainThread)
    \/ FatalStep(MainThread)
    \/ CloseStep(MainThread)
    \/ LevelStep(MainThread)
    \/ FormatStep(MainThread)
    \/ FileStep(MainThread)
    \/ CallbackStep(MainThread)

Spec == Init /\ [][Next]_vars

\* SpecNames: a single-threaded program that sets the threshold by value
\* and by name, with well-formed and ill-formed names, and queries it.
ValidNames == {S_FULL, S_DEBUG, S_TRACE, S_INFO, S_WARN, S_ERROR, S_FATAL,
               S_QUIET}
OtherNames == {S_INVALID, S_info, S_Debug, S_empty, S_LOG_, S_TIMEOUT,
               S_UNKNOWN, S_LOG_ \o S_TIMEOUT, S_LOG_ \o S_INVALID,
               S_LOG_ \o S_LOG_ \o S_INFO, S_log_ \o S_INFO,
               S_INFO \o <<"S">>, <<"I", "N", "F">>, <<" ">> \o S_INFO,
               <<"L", "O", "G">> \o S_INFO}
Names == ValidNames \cup {S_LOG_ \o n : n \in ValidNames} \cup OtherNames

NextNames ==
    \/ UserSetLogLevelFromString(MainThread, Names)
    \/ UserSetLogLevel(MainThread, LogLevels)
    \/ UserGetLogLevel(MainThread)
    \/ UserSetFormatOptions(MainThread, SomeFlags)
    \/ UserSetCallback(MainThread, {NoCallback, "cb_record"})
    \/ StringStep(MainThread)
    \/ LevelStep(MainThread)
    \/ FormatStep(MainThread)
    \/ CallbackStep(MainThread)

SpecNames == Init /\ [][NextNames]_vars

\* SpecThreads: the main thread installs a sink file and possibly a
\* callback, then starts the other threads; every thread then logs
\* MaxRecords in-threshold records (Test(logger, thread_safety)).
NextThreads ==
    \/ ~spawned /\ log_file = NULL /\ UserSetLogFile(MainThread, {"a.log"})
    \/ ~spawned /\ UserSetCallback(MainThread, {NoCallback, "cb_record"})
    \/ log_file # NULL /\ Spawn
    \/ FileStep(MainThread)
    \/ logger_close_file_check(MainThread)
    \/ CallbackStep(MainThread)
    \/ \E t \in Threads :
           \/ spawned /\ ThreadLog(t, {LOG_INFO}, Msgs(t))
           \/ LogStep(t)

SpecThreads == Init /\ [][NextThreads]_vars

\* SpecReentrant: the main thread configures the logger, registers a
\* callback that calls back into the logger, and starts the other
\* threads; every thread then logs.
Unregistered == Setup /\ ~spawned /\ log_callback = NoCallback
Fresh == \A h \in Handles : handle[h].state = "free"
OwnFile == log_file # NULL /\ handle[log_file].by = "logger"
UserFile == log_file # NULL /\ handle[log_file].by = "user"
NextReentrant ==
    \/ Unregistered /\ UserSetLogLevel(MainThread, {LOG_INFO})
    \/ Unregistered
           /\ UserCall(MainThread, {SetLogLevelFromStringFrame(S_INFO)})
    \/ Unregistered
           /\ UserSetFormatOptions(MainThread, {<<TRUE, TRUE, TRUE>>})
    \/ Unregistered /\ Fresh /\ UserSetLogFilenoNew(MainThread, {"a.log"})
    \/ Unregistered /\ UserFile /\ UserCloseFile(MainThread)
    \/ Unregistered /\ ~Fresh /\ log_file = NULL
           /\ UserSetLogFile(MainThread, {"a.log"})
    \/ Unregistered /\ (Fresh \/ OwnFile)
           /\ UserSetCallback(MainThread, {"cb_reenter"})
    \/ log_callback = "cb_reenter" /\ Spawn
    \/ \E t \in Threads :
           \/ log_callback = "cb_reenter"
                  /\ ThreadLog(t, {LOG_INFO}, Msgs(t))
           \/ LogStep(t)
           \/ CloseStep(t)
           \/ LevelStep(t)
           \/ logger_set_log_level_from_string_lock(t)
           \/ logger_set_log_level_from_string_set(t)
           \/ logger_set_log_level_from_string_unlock(t)
           \/ FormatStep(t)
           \/ FileStep(t)
           \/ FilenoStep(t)
           \/ CallbackStep(t)

SpecReentrant == Init /\ [][NextReentrant]_vars

\* SpecLevelEnv: the threshold set from LOG_LEVEL
\* (Test(logger, log_level_from_env)).
NextLevelEnv ==
    \/ Setenv(MainThread, "LOG_LEVEL", Names)
    \/ Unsetenv(MainThread, "LOG_LEVEL")
    \/ UserSetLogLevel(MainThread, {LOG_INFO, LOG_ERROR})
    \/ UserSetLogLevelFromEnv(MainThread)
    \/ UserGetLogLevel(MainThread)
    \/ logger_set_log_level_from_env(MainThread)
    \/ StringStep(MainThread)
    \/ LevelStep(MainThread)

SpecLevelEnv == Init /\ [][NextLevelEnv]_vars

\* SpecFileEnv: the sink file set from LOG_FILE or from a default path
\* (Test(logger, set_log_file_from_env)).
NextFileEnv ==
    \/ Setenv(MainThread, "LOG_FILE", Paths)
    \/ Unsetenv(MainThread, "LOG_FILE")
    \/ UserSetLogFileFromEnv(MainThread, Paths \cup {NullPath})
    \/ UserCloseFile(MainThread)
    \/ UserLog(MainThread, {LOG_TIMEOUT, LOG_INFO, LOG_TRACE, LOG_DEBUG},
               Msgs(MainThread), {FALSE})
    \/ logger_set_log_file_from_env(MainThread)
    \/ FileStep(MainThread)
    \/ CloseStep(MainThread)
    \/ LogStep(MainThread)

SpecFileEnv == Init /\ [][NextFileEnv]_vars

\* SpecFiles: one thread installs, replaces and closes sink files, its
\* own and the logger's, logs in between, and ends the program
\* (Test(logger, reset_log_file), Test(logger, set_invalid_log_file),
\* Test(logger, set_log_file_from_fileno)).
NextFiles ==
    \/ UserSetLogFile(MainThread, Paths)
    \/ UserSetLogFilenoNew(MainThread, Openable)
    \/ UserCloseFile(MainThread)
    \/ UserLog(MainThread, {LOG_INFO, LOG_DEBUG}, Msgs(MainThread), {FALSE})
    \/ UserExit(MainThread, {0})
    \/ FileStep(MainThread)
    \/ FilenoStep(MainThread)
    \/ CloseStep(MainThread)
    \/ LogStep(MainThread)
    \/ exit_deinit(MainThread)
    \/ exit_end(MainThread)

SpecFiles == Init /\ [][NextFiles]_vars

\* SpecLarge: messages shorter than, as long as and longer than the
\* message buffer (Test(logger, log_large_message)).
Lengths == {0, 1, 2, 3, 4, 1000, 2000}
               \cup (MESSAGE_SIZE - 5)..(MESSAGE_SIZE + 3)
LargeMsgs(t) ==
    {[id |-> MsgId(t, nrecords[t] + 1), len |-> n] : n \in Lengths}
NextLarge ==
    \/ Setup /\ log_file = NULL /\ UserSetLogFile(MainThread, {"a.log"})
    \/ Setup /\ UserSetCallback(MainThread, {NoCallback, "cb_record"})
    \/ UserLog(MainThread, {LOG_INFO}, LargeMsgs(MainThread), {FALSE})
    \/ LogStep(MainThread)
    \/ FileStep(MainThread)
    \/ logger_close_file_check(MainThread)
    \/ CallbackStep(MainThread)

SpecLarge == Init /\ [][NextLarge]_vars

\* SpecSwitch: the main thread installs a sink file and starts the other
\* threads; they log in-threshold records while the main thread calls
\* logger_set_log_file and logger_set_format_options.
Workers == Threads \ {MainThread}
NextSwitch ==
    \/ ~spawned /\ log_file = NULL /\ UserSetLogFile(MainThread, {"a.log"})
    \/ log_file # NULL /\ Spawn
    \/ spawned /\ UserSetLogFile(MainThread, {"b.log", "/no/such/dir/x.log"})
    \/ spawned /\ UserSetFormatOptions(MainThread, SomeFlags)
    \/ FileStep(MainThread)
    \/ CloseStep(MainThread)
    \/ FormatStep(MainThread)
    \/ \E t \in Workers :
           \/ spawned /\ ThreadLog(t, {LOG_INFO}, Msgs(t))
           \/ LogStep(t)

SpecSwitch == Init /\ [][NextSwitch]_vars

\* SpecSignal: a single-threaded program that configures the logger and
\* logs; a crash signal is delivered to it at any point of its run.
NextSignal ==
    \/ Setup /\ UserSetLogLevel(MainThread, {LOG_QUITE, LOG_INFO})
    \/ Setup /\ UserSetFormatOptions(MainThread, SomeFlags)
    \/ Setup /\ UserSetLogFile(MainThread, {"a.log"})
    \/ Setup /\ UserSetCallback(MainThread, {NoCallback, "cb_record"})
    \/ UserLog(MainThread, {LOG_INFO}, Msgs(MainThread), {FALSE})
    \/ Deliver(MainThread, Signals)
    \/ LogStep(MainThread)
    \/ LevelStep(MainThread)
    \/ FormatStep(MainThread)
    \/ FileStep(MainThread)
    \/ CloseStep(MainThread)
    \/ CallbackStep(MainThread)
    \/ SignalStep(MainThread)

SpecSignal == Init /\ [][NextSignal]_vars

\* a thread that can take a step of the handler takes it in the end
SpecSignalLive == SpecSignal /\ WF_vars(SignalStep(MainThread))

\* SpecCore: a program that uses the core_utils logger.
SomeOptions ==
    {[log_level |-> l, show_date |-> d, show_thread_id |-> d] :
         l \in {DEBUG, ERROR, FATAL}, d \in BOOLEAN}
NextCore ==
    \/ logger_set_options(MainThread, SomeOptions)
    \/ logger_set_outfile(MainThread,
                          {"stderr", CoreFile, "/no/such/dir/x.log"})
    \/ logger_close_outfile(MainThread)
    \/ logger_log(MainThread, CoreLevels, Msgs(MainThread))

SpecCore == Init /\ [][NextCore]_vars

\* SpecRace: the main thread installs a sink file or none and starts the
\* other threads; then every thread makes one call: the main thread of a
\* setter, the others of logger_close_file or of the log function at a
\* level below FATAL.
SetterCall(t, frames) ==
    /\ nrecords[t] = 0
    /\ \E f \in frames :
           /\ Call(t, f)
           /\ call' = [call EXCEPT ![t] =
                  [NoCall EXCEPT !.fn = f.pc, !.level = f.loc.level,
                                 !.threshold = current_log_level,
                                 !.file = log_file]]
    /\ nrecords' = [nrecords EXCEPT ![t] = @ + 1]
    /\ UNCHANGED <<config, log_mutex, sinks, acquired, process, spawned, env,
                   core, disposition, heap>>

\* fopen can still return a new handle to every thread about to call it
HandleSpare ==
    Cardinality({h \in Handles : handle[h].state = "free"})
        > Cardinality({t \in Threads : pc[t] = "slf_open"})

\* logger_set_log_fileno(f) on a stream f the caller has just opened
FilenoCall(t, paths) ==
    /\ nrecords[t] = 0
    /\ \E p \in paths \cap Openable :
           /\ Fopen(NewHandle, p, "user")
           /\ Call(t, SetLogFilenoFrame(NewHandle))
           /\ call' = [call EXCEPT ![t] =
                  [NoCall EXCEPT !.fn = "logger_set_log_fileno", !.path = p,
                                 !.file = log_file]]
    /\ nrecords' = [nrecords EXCEPT ![t] = @ + 1]
    /\ UNCHANGED <<config, log_mutex, disk, cbLog, acquired, process,
                   spawned, env, core, disposition, heap>>

\* fclose() of line 322 on a null or closed stream is undefined: it may
\* go unnoticed, or raise SIGSEGV in the calling thread, which then runs
\* logger_signal_handler (SpecSignal has the steps of the handler)
FcloseFault(t) ==
    /\ pc[t] = "cf_close"
    /\ IF log_file = NULL THEN TRUE ELSE handle[log_file].state # "open"
    /\ Deliver(t, {SIGSEGV})

RaceFrames ==
    {SetLogLevelFrame(LOG_ERROR), SetLogLevelFromStringFrame(S_DEBUG),
     SetFormatOptionsFrame(<<FALSE, FALSE, FALSE>>),
     SetCallbackFrame("cb_record"), CloseFileFrame}

RaceStep(t) ==
    \/ LogStep(t)
    \/ LevelStep(t)
    \/ logger_set_log_level_from_string_lock(t)
    \/ logger_set_log_level_from_string_set(t)
    \/ logger_set_log_level_from_string_unlock(t)
    \/ FormatStep(t)
    \/ CallbackStep(t)
    \/ FileStep(t)
    \/ FilenoStep(t)
    \/ CloseStep(t)

NextRace ==
    \/ ~spawned /\ log_file = NULL /\ UserSetLogFile(MainThread, {"a.log"})
    \/ Spawn
    \/ spawned /\ SetterCall(MainThread, RaceFrames)
    \/ spawned /\ HandleSpare
           /\ SetterCall(MainThread, {SetLogFileFrame("b.log")})
    \/ spawned /\ HandleSpare /\ FilenoCall(MainThread, {"b.log"})
    \/ \E t \in Workers :
           \/ spawned /\ SetterCall(t, {CloseFileFrame})
           \/ spawned /\ nrecords[t] = 0
                  /\ ThreadLog(t, {LOG_INFO, LOG_DEBUG}, Msgs(t))
    \/ \E t \in Threads :
           \/ FcloseFault(t)
           \/ RaceStep(t)

SpecRace == Init /\ [][NextRace]_vars

\* every thread that can take a step of the code takes it in the end
SpecRaceLive == SpecRace /\ \A t \in Threads : WF_vars(RaceStep(t))

\* SpecFatal: the main thread installs a sink file, registers a callback
\* or none and starts the other threads; they log in-threshold records
\* while the main thread logs at LOG_FATAL.
NextFatal ==
    \/ ~spawned /\ log_file = NULL /\ UserSetLogFile(MainThread, {"a.log"})
    \/ ~spawned /\ UserSetCallback(MainThread, {NoCallback, "cb_record"})
    \/ log_file # NULL /\ Spawn
    \/ spawned /\ UserLog(MainThread, {LOG_FATAL}, Msgs(MainThread), {FALSE})
    \/ FileStep(MainThread)
    \/ CloseStep(MainThread)
    \/ CallbackStep(MainThread)
    \/ FatalStep(MainThread)
    \/ \E t \in Threads : LogStep(t)
    \/ \E t \in Workers : spawned /\ ThreadLog(t, {LOG_INFO}, Msgs(t))

SpecFatal == Init /\ [][NextFatal]_vars

\* SpecHandle: one thread passes a stream of its own to
\* logger_set_log_fileno, once or again while it is installed, logs and
\* closes the sink.
NextHandle ==
    \/ Fresh /\ UserSetLogFilenoNew(MainThread, {"a.log"})
    \/ UserFile /\ UserCall(MainThread, {SetLogFilenoFrame(log_file)})
    \/ UserLog(MainThread, {LOG_INFO, LOG_DEBUG}, Msgs(MainThread), {FALSE})
    \/ UserCloseFile(MainThread)
    \/ UserSetFormatOptions(MainThread, SomeFlags)
    \/ FilenoStep(MainThread)
    \/ CloseStep(MainThread)
    \/ LogStep(MainThread)
    \/ FormatStep(MainThread)

SpecHandle == Init /\ [][NextHandle]_vars

\* SpecOpen: the main thread starts the other threads; every thread then
\* calls logger_set_log_file once.
NextOpen ==
    \/ Spawn
    \/ \E t \in Threads :
           \/ spawned /\ HandleSpare
                  /\ SetterCall(t, {SetLogFileFrame(p) : p \in Paths})
           \/ FileStep(t)
           \/ CloseStep(t)

SpecOpen == Init /\ [][NextOpen]_vars

\* ================================================================ claims
\* what a log call has delivered since it was issued
InLogCall(t) == call[t].fn = "log_message"
EmitPcs == {"lm_filter", "lm_fmt_date", "lm_fmt_thread", "lm_lock",
            "lm_cb", "lm_file", "lm_unlock"}
\* the log call of t is past its emission (line 362), or has returned
Emitted(t) == InLogCall(t) /\ pc[t] \notin EmitPcs
Returned(t) == InLogCall(t) /\ pc[t] = "idle"

NewCb(t) == SubSeq(cbLog, call[t].cb + 1, Len(cbLog))
NewLines(t, p) == SubSeq(disk[p], call[t].lines[p] + 1, Len(disk[p]))

\* deliveries of the record of t's log call, as opposed to the backtrace
\* frames that may follow a FATAL record
IsRecordOf(t, text) ==
    /\ text.body.id = call[t].msg.id
    /\ text.tag = log_level_to_string(call[t].level)
CbCount(t) ==
    Cardinality({i \in 1..Len(NewCb(t)) : IsRecordOf(t, NewCb(t)[i].raw)})
FileCount(t, p) ==
    Cardinality({i \in 1..Len(NewLines(t, p)) :
                     IsRecordOf(t, NewLines(t, p)[i])})
NothingDelivered(t) ==
    /\ NewCb(t) = <<>>
    /\ \A p \in Paths : NewLines(t, p) = <<>>
\* once to the callback if one is registered, once to the sink file if
\* one is installed, and to no other file
DeliveredOnce(t) ==
    /\ CbCount(t) = (IF call[t].callback # NoCallback THEN 1 ELSE 0)
    /\ \A p \in Paths :
           FileCount(t, p) =
               (IF call[t].file # NULL /\ handle[call[t].file].path = p
                    THEN 1 ELSE 0)
BothSinks(t) == call[t].callback # NoCallback /\ call[t].file # NULL

\* C1: a log call at a record level L <= T (the threshold) delivers the
\* record exactly once to each active sink; a log call at a non-FATAL
\* level L > T delivers nothing to any sink.
C1_LevelFilter ==
    \A t \in Threads :
        (Emitted(t) /\ call[t].level \in RecordLevels) =>
            /\ call[t].level <= call[t].threshold => DeliveredOnce(t)
            /\ (call[t].level > call[t].threshold
                    /\ call[t].level # LOG_FATAL) => NothingDelivered(t)

C1_Witness ==
    \E t \in Threads :
        /\ Returned(t) /\ BothSinks(t)
        /\ call[t].level = LOG_WARN /\ call[t].threshold = LOG_WARN
        /\ DeliveredOnce(t)

C3_FatalNeverReturns ==
    \A t \in Threads :
        (InLogCall(t) /\ call[t].level = LOG_FATAL) => pc[t] # "idle"

\* C8: a log call whose own level is FULL or QUIET is dropped for every
\* threshold: it returns at the first test, nothing reaches a sink, no
\* step of it changes the logger state or takes the mutex, and the
\* process goes on.
SentinelCall(t) ==
    InLogCall(t) /\ call[t].level \in {LOG_FULL, LOG_QUITE}
C8_SentinelDropped ==
    /\ [](\A t \in Threads :
              SentinelCall(t) =>
                  /\ pc[t] \in {"lm_filter", "idle"}
                  /\ NothingDelivered(t)
                  /\ Running)
    /\ [][\A t \in Threads :
              (SentinelCall(t) /\ pc[t] = "lm_filter") =>
                  /\ pc'[t] = "idle"
                  /\ UNCHANGED <<config, log_mutex, sinks, process>>]_vars

C8_Witness ==
    \E t \in Threads :
        /\ Returned(t) /\ BothSinks(t)
        /\ call[t].level = LOG_FULL /\ call[t].threshold = LOG_FULL

\* C6: with a callback registered, an in-threshold log call invokes it
\* exactly once with the record, before the call returns, on the calling
\* thread and with the mutex held by that thread, passing the level of
\* the record and a raw (uncoloured) text that holds the expanded
\* message; an out-of-threshold log call, and a log call made when no
\* callback is registered (never set, or cleared by setCallback(none)),
\* invokes nothing.
InThreshold(t) ==
    /\ call[t].level \in RecordLevels
    /\ call[t].level <= call[t].threshold
LevelNames == {<<S_FULL, LOG_FULL>>, <<S_DEBUG, LOG_DEBUG>>,
               <<S_TRACE, LOG_TRACE>>, <<S_INFO, LOG_INFO>>,
               <<S_WARN, LOG_WARN>>, <<S_ERROR, LOG_ERROR>>,
               <<S_FATAL, LOG_FATAL>>, <<S_QUIET, LOG_QUITE>>}
Names_(p, name) == name = p[1] \/ name = S_LOG_ \o p[1]
InStringCall(t) == call[t].fn = "logger_set_log_level_from_string"
NoLevelNamed(name) == \A p \in LevelNames : ~Names_(p, name)

\* C9: setLevelFromString with a name that matches no level name leaves
\* the threshold as it was, from every prior threshold, and no step of it
\* changes another field.
C9_InvalidNameNoOp ==
    /\ [](\A t \in Threads :
              (InStringCall(t) /\ NoLevelNamed(call[t].name)) =>
                  current_log_level = call[t].threshold)
    /\ [][\A t \in Threads :
              (InStringCall(t) /\ NoLevelNamed(call[t].name)
                   /\ pc[t] # "idle") =>
                  UNCHANGED <<config, sinks, process>>]_vars

C9_Witness ==
    \E t \in Threads :
        /\ InStringCall(t) /\ pc[t] = "idle"
        /\ call[t].name = S_INVALID
        /\ call[t].threshold = LOG_DEBUG
        /\ show_date = FALSE /\ log_callback = "cb_record"

\* C10: for each level name N, setLevelFromString(N) and
\* setLevelFromString("LOG_" + N) set the threshold to the level named N,
\* and the level query made next returns that level.
C10_NameSetsLevel ==
    \A t \in Threads :
        (InStringCall(t) /\ pc[t] = "idle") =>
            \A p \in LevelNames :
                Names_(p, call[t].name) =>
                    /\ current_log_level = p[2]
                    /\ retval[t].fn = "logger_get_log_level" =>
                           retval[t].val = p[2]

C10_Witness ==
    \E t \in Threads :
        /\ InStringCall(t) /\ pc[t] = "idle"
        /\ call[t].name = S_LOG_ \o S_FATAL
        /\ call[t].threshold = LOG_DEBUG
        /\ retval[t] = [fn |-> "logger_get_log_level", val |-> LOG_FATAL]

\* the records issued so far, those whose call is past its emission, and
\* the message ids in the sink file, at the callback and in the order of
\* mutex acquisition
Issued == {MsgId(t, k) : t \in Threads, k \in 1..MaxRecords} \cap
          UNION {{MsgId(t, k) : k \in 1..nrecords[t]} : t \in Threads}
Completed ==
    UNION {{MsgId(t, k) :
                k \in {j \in 1..nrecords[t] :
                           j < nrecords[t] \/ pc[t] \notin EmitPcs}} :
               t \in Threads}
FileIds == [i \in 1..Len(disk["a.log"]) |-> disk["a.log"][i].body.id]
CbIds == [i \in 1..Len(cbLog) |-> cbLog[i].raw.body.id]
AcquiredIds == [i \in 1..Len(acquired) |-> acquired[i].id]
Quiescent ==
    /\ spawned
    /\ \A t \in Threads : pc[t] = "idle" /\ nrecords[t] = MaxRecords
IsPrefix(a, b) == Len(a) <= Len(b) /\ a = SubSeq(b, 1, Len(a))

C5_SameOrder ==
    (spawned /\ log_file # NULL /\ log_callback # NoCallback) =>
        /\ IsPrefix(FileIds, CbIds)
        /\ IsPrefix(CbIds, AcquiredIds)
        /\ Len(AcquiredIds) - Len(FileIds) <= 1
        /\ Quiescent => FileIds = AcquiredIds

C5_Witness ==
    /\ Quiescent /\ log_file # NULL /\ log_callback = "cb_record"
    /\ Len(FileIds) = NThreads * MaxRecords
    /\ FileIds = CbIds /\ CbIds = AcquiredIds
    /\ FileIds[1] = MsgId(NThreads, 1)

\* the thread is inside a call made by the callback; it waits at a mutex
\* acquisition of that call
LockPcs == {"lm_lock", "bt_lock", "sfo_lock", "sll_lock", "sls_lock",
            "slf_lock", "sfn_lock", "cf_lock", "scb_lock"}
Nested(t) == outer[t] # NoFrame
Stuck(t) == Nested(t) /\ pc[t] \in LockPcs

\* C7 as stated: a call of any logging entry point made by the callback
\* never returns to the callback.
C7_NestedCallNeverReturns ==
    [][\A t \in Threads : Nested(t) => Nested(t)']_vars

\* C7, amended: the callback runs with the mutex held by its thread; a
\* call it makes returns to it only when that call ends before any mutex
\* acquisition (a log call that is filtered, setLogFile failing to open
\* its path, closeSink with no sink file installed); every other call it
\* makes reaches a mutex acquisition, where the thread stays forever with
\* the mutex held, and every other thread at a mutex acquisition stays
\* there as well.
C7_NestedLockDeadlocks ==
    /\ [](\A t \in Threads : Nested(t) => log_mutex = t)
    /\ [][\A t \in Threads :
              (Nested(t) /\ ~Nested(t)') =>
                  \/ /\ pc[t] = "lm_filter"
                     /\ \/ loc[t].level \notin RecordLevels
                        \/ loc[t].level > current_log_level
                  \/ pc[t] = "slf_open" /\ loc[t].path \notin Openable
                  \/ /\ pc[t] = "cf_check" /\ loc[t].cont = "return"
                     /\ log_file = NULL]_vars
    /\ [][\A t \in Threads :
              Stuck(t) =>
                  /\ pc'[t] = pc[t] /\ outer'[t] = outer[t]
                  /\ log_mutex' = t
                  /\ \A u \in Threads :
                         pc[u] \in LockPcs => pc'[u] = pc[u]]_vars

C7_Witness ==
    \E t, u \in Threads :
        /\ t # u
        /\ Stuck(t) /\ pc[t] = "sll_lock" /\ log_mutex = t
        /\ pc[u] = "lm_lock"

\* C11: setLevelFromEnvironment leaves the threshold as it was when
\* LOG_LEVEL is not set; when it is set, the threshold becomes the level
\* its value names (with or without "LOG_"), and stays as it was when the
\* value names no level.
InLevelEnvCall(t) == call[t].fn = "logger_set_log_level_from_env"
C11_LevelFromEnv ==
    \A t \in Threads :
        InLevelEnvCall(t) =>
            /\ (~env.LOG_LEVEL.set \/ NoLevelNamed(env.LOG_LEVEL.val)) =>
                   current_log_level = call[t].threshold
            /\ (env.LOG_LEVEL.set /\ pc[t] = "idle") =>
                   \A p \in LevelNames :
                       Names_(p, env.LOG_LEVEL.val) =>
                           /\ current_log_level = p[2]
                           /\ retval[t].fn = "logger_get_log_level" =>
                                  retval[t].val = p[2]

C11_Witness ==
    \E t \in Threads :
        /\ InLevelEnvCall(t) /\ pc[t] = "idle"
        /\ env.LOG_LEVEL = [set |-> TRUE, val |-> S_LOG_ \o S_FATAL]
        /\ call[t].threshold = LOG_ERROR
        /\ retval[t] = [fn |-> "logger_get_log_level", val |-> LOG_FATAL]

\* C14: setLogFileFromEnvironment(defaultPath) opens the value of
\* LOG_FILE when it is set, and defaultPath is not tried when that fails;
\* it opens defaultPath when LOG_FILE is not set and defaultPath is given;
\* it returns what that setLogFile returns (success, with the file opened
\* installed as the sink, exactly when the path can be opened; otherwise
\* failure with the sink file as it was); with LOG_FILE not set and no
\* defaultPath it fails and no step of it changes the logger.
InFileEnvCall(t) == call[t].fn = "logger_set_log_file_from_env"
EnvTarget(t) ==
    IF env.LOG_FILE.set THEN env.LOG_FILE.val ELSE call[t].path
C14_FileFromEnv ==
    /\ [](\A t \in Threads :
              (InFileEnvCall(t) /\ pc[t] = "idle") =>
                  IF EnvTarget(t) \in Openable
                      THEN /\ retval[t].val = 1
                           /\ log_file # NULL
                           /\ log_file # call[t].file
                           /\ handle[log_file] =
                                  [state |-> "open", path |-> EnvTarget(t),
                                   by |-> "logger", closes |-> 0]
                      ELSE /\ retval[t].val = 0
                           /\ log_file = call[t].file
                           /\ \A h \in Handles :
                                  handle[h].state = "open" => h = log_file)
    /\ [][\A t \in Threads :
              (InFileEnvCall(t) /\ pc[t] # "idle"
                   /\ EnvTarget(t) \notin Openable) =>
                  UNCHANGED <<config, sinks, log_mutex, process>>]_vars

C14_Witness ==
    \E t \in Threads :
        /\ InFileEnvCall(t) /\ pc[t] = "idle"
        /\ env.LOG_FILE = [set |-> TRUE, val |-> "/no/such/dir/x.log"]
        /\ call[t].path = "b.log"
        /\ call[t].file # NULL
        /\ retval[t].val = 0

InSetFile(t) == call[t].fn = "logger_set_log_file"
FailedSetFile(t) == retval[t] = [fn |-> "logger_set_log_file", val |-> 0]

\* C12: setLogFile on a path that cannot be opened returns failure and
\* no step of it changes the logger, its files or its mutex: the sink
\* file installed before is still installed and open, and an
\* in-threshold log call made next writes its record to that file.
C12_FailedOpenNoChange ==
    /\ [](\A t \in Threads :
              (InSetFile(t) /\ pc[t] = "idle"
                   /\ call[t].path \notin Openable) =>
                  /\ FailedSetFile(t)
                  /\ log_file = call[t].file
                  /\ call[t].file # NULL =>
                         handle[call[t].file].state = "open")
    /\ [][\A t \in Threads :
              (InSetFile(t) /\ pc[t] # "idle"
                   /\ call[t].path \notin Openable) =>
                  UNCHANGED <<config, sinks, log_mutex, process>>]_vars
    /\ [](\A t \in Threads :
              (FailedSetFile(t) /\ Emitted(t) /\ InThreshold(t)
                   /\ call[t].file # NULL) =>
                  FileCount(t, handle[call[t].file].path) = 1)

C12_Witness ==
    \E t \in Threads :
        /\ FailedSetFile(t) /\ Emitted(t) /\ InThreshold(t)
        /\ call[t].file # NULL
        /\ handle[call[t].file].state = "open"
        /\ FileCount(t, handle[call[t].file].path) = 1

\* C13: when a setLogFile call succeeds, the file it opened is the sink
\* file and the file installed before it has been closed; every record is
\* written to the file that is installed when it is logged and to no
\* other, and a file only ever grows by one line at its end, written
\* through the installed handle: records logged before the switch stay in
\* file 1 alone, records logged after it are in file 2 alone.
C13_SwitchFiles ==
    /\ [](\A t \in Threads :
              (InSetFile(t) /\ pc[t] = "idle" /\ retval[t].val = 1) =>
                  /\ log_file # NULL
                  /\ handle[log_file] =
                         [state |-> "open", path |-> call[t].path,
                          by |-> "logger", closes |-> 0]
                  /\ call[t].file # NULL =>
                         /\ call[t].file # log_file
                         /\ handle[call[t].file].state = "closed"
                         /\ handle[call[t].file].closes = 1)
    /\ [](\A t \in Threads :
              (Emitted(t) /\ InThreshold(t)) => DeliveredOnce(t))
    /\ [][\A p \in Paths :
              disk'[p] # disk[p] =>
                  /\ log_file # NULL
                  /\ handle[log_file].state = "open"
                  /\ handle[log_file].path = p
                  /\ Len(disk'[p]) = Len(disk[p]) + 1
                  /\ SubSeq(disk'[p], 1, Len(disk[p])) = disk[p]
                  /\ \A q \in Paths \ {p} : disk'[q] = disk[q]]_vars

C13_Witness ==
    \E t \in Threads :
        /\ InSetFile(t) /\ pc[t] = "idle" /\ retval[t].val = 1
        /\ call[t].file # NULL /\ handle[call[t].file].by = "logger"
        /\ call[t].path = "b.log"
        /\ Len(disk["a.log"]) = 1 /\ disk["b.log"] = <<>>

\* C15: closeSink with a sink file installed closes that handle, once,
\* and clears the reference; with none installed no step of it changes
\* anything, so a second closeSink changes nothing and no handle is ever
\* closed twice; a log call made with no sink file writes to no file.
InCloseFile(t) == call[t].fn = "logger_close_file"
C15_CloseIdempotent ==
    /\ [](\A t \in Threads :
              (InCloseFile(t) /\ pc[t] = "idle") =>
                  /\ log_file = NULL
                  /\ call[t].file # NULL =>
                         /\ handle[call[t].file].state = "closed"
                         /\ handle[call[t].file].closes = 1)
    /\ [](\A h \in Handles : handle[h].closes <= 1)
    /\ [][\A t \in Threads :
              (InCloseFile(t) /\ call[t].file = NULL /\ pc[t] # "idle") =>
                  UNCHANGED <<config, sinks, log_mutex, process>>]_vars
    /\ [](\A t \in Threads :
              (Emitted(t) /\ call[t].file = NULL) =>
                  \A p \in Paths : NewLines(t, p) = <<>>)

C15_Witness ==
    \E t \in Threads :
        /\ InCloseFile(t) /\ pc[t] = "idle" /\ call[t].file = NULL
        /\ \E h \in Handles :
               /\ handle[h] = [state |-> "closed", path |-> "a.log",
                               by |-> "logger", closes |-> 1]
               /\ \A g \in Handles \ {h} : handle[g].state = "free"

\* C16 as stated: a handle the caller opened and installed with
\* setLogFileHandle is never closed by the logger.
C16_UserHandleNeverClosed ==
    \A h \in Handles : handle[h].by = "user" => handle[h].state # "closed"

\* C16, amended: the logger closes the handle installed with
\* setLogFileHandle like a file it opened itself: such a handle is open
\* only while it is the sink file or is being installed; closeSink, a
\* setLogFile or setLogFileHandle that replaces it, and deinit at the end
\* of the process each close it, and it is closed once.
InSetFileno(t) == call[t].fn = "logger_set_log_fileno"
Replaced(t) ==
    /\ pc[t] = "idle" /\ call[t].file # NULL
    /\ \/ InCloseFile(t)
       \/ InSetFileno(t)
       \/ InSetFile(t) /\ retval[t].val = 1
C16_UserHandleClosed ==
    /\ \A h \in Handles :
           (handle[h].by = "user" /\ handle[h].state = "open") =>
               \/ log_file = h
               \/ \E t \in Threads : pc[t] # "idle" /\ loc[t].file = h
    /\ \A t \in Threads :
           Replaced(t) =>
               /\ handle[call[t].file].state = "closed"
               /\ handle[call[t].file].closes = 1
    /\ process.state = "exited" =>
           /\ log_file = NULL
           /\ \A h \in Handles : handle[h].state # "open"

C16_Witness ==
    /\ process.state = "exited"
    /\ \E h \in Handles :
           /\ handle[h] = [state |-> "closed", path |-> "a.log",
                           by |-> "user", closes |-> 1]
           /\ \A g \in Handles \ {h} : handle[g].state = "free"

\* C17: a message whose expansion has n >= 1024 characters is emitted,
\* once, with a body of exactly 1023 characters: the first 1020 of the
\* expansion, then "..."; a message with n < 1024 is emitted unchanged;
\* no byte after the 1024 of the buffer is written.
C17_Truncation ==
    \A t \in Threads :
        (Emitted(t) /\ InThreshold(t) /\ call[t].file # NULL) =>
            LET n == call[t].msg.len
                buf == MessageBuffer(n)
                lines == NewLines(t, handle[call[t].file].path)
            IN  /\ Len(lines) = 1
                /\ IsRecordOf(t, lines[1])
                /\ lines[1].body.len = Strlen(buf)
                /\ IF n >= 1024
                       THEN /\ lines[1].body.len = 1023
                            /\ lines[1].body.dots
                            /\ \A i \in 0..1019 : buf[i] = i + 1
                            /\ \A i \in 1020..1022 : buf[i] = Dot
                            /\ buf[1023] = NUL
                       ELSE /\ lines[1].body.len = n
                            /\ ~lines[1].body.dots
                            /\ \A i \in 0..(n - 1) : buf[i] = i + 1
                            /\ buf[n] = NUL
                /\ \A i \in DOMAIN buf : i >= 1024 => buf[i] = Beyond

C17_Witness ==
    \E t \in Threads :
        /\ Returned(t) /\ call[t].msg.len = 2000
        /\ Len(disk["a.log"]) = 1
        /\ disk["a.log"][1].body = [id |-> call[t].msg.id, len |-> 1023,
                                    dots |-> TRUE]
        /\ Len(cbLog) = 1 /\ cbLog[1].raw.body = disk["a.log"][1].body

\* C18: with no sink file and no callback a log call at any level does
\* not block (at every point of it the thread has a step to take) and
\* does not crash (the process ends only through the exit of a FATAL
\* record); a call that is not FATAL changes no logger field, no file and
\* nothing at the callback, and returns with the mutex released.
NoSinks(t) ==
    /\ InLogCall(t)
    /\ call[t].file = NULL /\ call[t].callback = NoCallback
C18_NoSinks ==
    /\ [](\A t \in Threads :
              (NoSinks(t) /\ pc[t] # "idle" /\ Running) =>
                  ENABLED (LogStep(t) \/ FatalStep(t) \/ CloseStep(t)))
    /\ [](\A t \in Threads :
              (NoSinks(t) /\ ~Running) =>
                  /\ call[t].level = LOG_FATAL \/ call[t].macro
                  /\ process = [state |-> "exited", code |-> EXIT_FAILURE])
    /\ [](\A t \in Threads :
              (NoSinks(t) /\ Returned(t)) => log_mutex = 0)
    /\ [][\A t \in Threads :
              (NoSinks(t) /\ pc[t] # "idle"
                   /\ call[t].level # LOG_FATAL) =>
                  UNCHANGED <<config, sinks, process>>]_vars

C18_Witness ==
    \E t \in Threads :
        /\ NoSinks(t) /\ Returned(t) /\ InThreshold(t)
        /\ call[t].level = LOG_ERROR
        /\ log_mutex = 0 /\ cbLog = <<>>
        /\ \A p \in Paths : disk[p] = <<>>

\* C19: as long as no level, format or callback setter has been called,
\* the threshold is INFO, showDate, showThread and traceOnFatal are true
\* and there is no callback, and there is no sink file before one is
\* installed; a TRACE or DEBUG record is then not emitted, while an INFO
\* or TIMEOUT record is, with its date and its thread.
C19_InitialState ==
    /\ current_log_level = LOG_INFO
    /\ show_date /\ show_thread /\ log_trace_on_fatal
    /\ log_callback = NoCallback
    /\ Fresh => log_file = NULL
    /\ \A t \in Threads :
           Emitted(t) =>
               /\ call[t].level \in {LOG_TRACE, LOG_DEBUG} =>
                      NothingDelivered(t)
               /\ call[t].level \in {LOG_INFO, LOG_TIMEOUT} =>
                      /\ DeliveredOnce(t)
                      /\ \A p \in Paths :
                             \A i \in 1..Len(NewLines(t, p)) :
                                 /\ NewLines(t, p)[i].date # ""
                                 /\ NewLines(t, p)[i].thread # ""

C19_Witness ==
    \E t \in Threads :
        /\ Returned(t) /\ call[t].level = LOG_TIMEOUT
        /\ call[t].file # NULL
        /\ FileCount(t, handle[call[t].file].path) = 1

\* C20: in the core_utils logger a FATAL record logged while a file other
\* than stderr is the outfile appears once in that file and once on
\* stderr.
CoreCount(stream, id) ==
    Cardinality({i \in 1..Len(streams[stream]) : streams[stream][i].id = id})
C20_FatalInFileAndOnStderr ==
    \A i \in 1..Len(streams[CoreFile]) :
        streams[CoreFile][i].level = FATAL =>
            /\ CoreCount(CoreFile, streams[CoreFile][i].id) = 1
            /\ CoreCount(STDERR, streams[CoreFile][i].id) = 1

\* C21: in the core_utils logger, for any sequence of LOGGER_SET_OUTFILE
\* and LOGGER_CLOSE_OUTFILE calls: stderr is never passed to the close
\* function; a set-outfile call made while an outfile is installed
\* returns false, opens nothing and leaves the outfile as it is; every
\* file the logger opened is closed exactly once, by the next
\* close-outfile call, after which no outfile is installed.
OwnCalls == SelectSeq(fileCalls, LAMBDA c : c.ok)
IsFile(f) == f # NoOutfile /\ f # STDERR
CoreStep(f) == call'[MainThread].fn = f
C21_OutfileLifecycle ==
    /\ [](/\ \A i \in 1..Len(fileCalls) :
                 fileCalls[i].fn = "close_file" => fileCalls[i].file # STDERR
          /\ \A i \in 1..Len(OwnCalls) :
                 IF i % 2 = 1
                     THEN OwnCalls[i].fn = "open_file"
                     ELSE /\ OwnCalls[i].fn = "close_file"
                          /\ OwnCalls[i].file = OwnCalls[i - 1].file
          /\ IsFile(outfile) <=> Len(OwnCalls) % 2 = 1)
    /\ [][/\ (CoreStep("logger_set_outfile") /\ outfile # NoOutfile) =>
                 /\ retval'[MainThread].val = 0
                 /\ fileCalls' = fileCalls
                 /\ outfile' = outfile
          /\ CoreStep("logger_close_outfile") =>
                 /\ outfile' = NoOutfile
                 /\ IsFile(outfile) =>
                        fileCalls' = Append(fileCalls, CloseFile(outfile))
                 /\ ~IsFile(outfile) => fileCalls' = fileCalls]_vars
C21_Witness ==
    /\ \E i \in 1..Len(fileCalls) : fileCalls[i].fn = "close_file"
    /\ outfile = STDERR
    /\ retval[MainThread] = [fn |-> "logger_set_outfile", val |-> 0]

\* C22: every read and every write of current_log_level, show_date,
\* show_thread, log_trace_on_fatal, log_file and log_callback made by an
\* operation is made while the executing thread holds the mutex.
C22_AccessUnderMutex ==
    \A t \in Threads :
        (Alive(t) /\ Accesses(pc[t]) # {}) => log_mutex = t

\* C23: a successful logger_set_log_file made while a sink file is
\* installed replaces it atomically for concurrent log calls: no log call
\* that holds the mutex finds log_file empty, and every in-threshold
\* record logged during the switch is in the old file or in the new one.
InSomeFile(id) ==
    \E p \in Openable : \E i \in 1..Len(disk[p]) : disk[p][i].body.id = id
C23_NoRecordLost ==
    \A t \in Workers :
        /\ (pc[t] = "lm_file" /\ log_mutex = t) => log_file # NULL
        /\ Emitted(t) => InSomeFile(call[t].msg.id)

\* C24: in every reachable state, the intermediate states of a
\* logger_set_log_file that replaces a sink file included, at most one
\* file opened by logger_set_log_file is open.
OpenedByLogger ==
    {h \in Handles : handle[h].state = "open" /\ handle[h].by = "logger"}
C24_AtMostOneOpen == Cardinality(OpenedByLogger) <= 1

\* C25: logger_set_format_options replaces the flags atomically for
\* concurrent log calls: every record is rendered with the show_date and
\* show_thread of one call (or the initial ones), never with one flag of
\* the pair before and one of the pair after.  The pairs in force in
\* SpecSwitch are (true, true) and (false, false).
TextsDelivered ==
    UNION {{disk[p][i] : i \in 1..Len(disk[p])} : p \in Openable}
C25_NoMixedFlags ==
    \A text \in TextsDelivered : (text.date = "") <=> (text.thread = "")

\* what the log call of t has delivered to each sink since it was issued
CbRaw(t) == [i \in 1..Len(NewCb(t)) |-> NewCb(t)[i].raw]
Delivered(t) == {CbRaw(t)} \cup {NewLines(t, p) : p \in Paths}
ActiveSeqs(t) ==
    (IF call[t].callback # NoCallback THEN {CbRaw(t)} ELSE {})
    \cup (IF call[t].file # NULL
              THEN {NewLines(t, handle[call[t].file].path)} ELSE {})
IsFrame(text) == text.body.id = FrameId
FramesIn(D) == Cardinality({i \in 1..Len(D) : IsFrame(D[i])})
BtPcs == {"bt_lock", "bt_capture", "bt_file", "bt_cb", "bt_next",
          "bt_unlock"}
\* an emitted FATAL log call: it passes the tests of lines 338-341
FatalCall(t) ==
    /\ InLogCall(t) /\ call[t].level = LOG_FATAL
    /\ ~Filtered(LOG_FATAL, call[t].threshold)
Exited == process.state = "exited"

InSignal(t) == call[t].fn = "signal"
Signaled == process.state = "signaled"

\* C27: on a crash signal a FATAL record is emitted to every active sink
\* before the process ends, whatever the threshold and whatever
\* log_trace_on_fatal is.
C27_SignalRecordAlways ==
    \A t \in Threads :
        (InSignal(t) /\ Signaled) =>
            \A D \in ActiveSeqs(t) : \E i \in 1..Len(D) : IsRecordOf(t, D[i])

\* the handler of t waits, or is about to wait, for the mutex that the
\* code it interrupted holds
Blocked(t) ==
    /\ InSignal(t) /\ log_mutex = t /\ log_trace_on_fatal
    /\ pc[t] \in {"sh_trace", "bt_lock"}
AfterTrace(t) == InSignal(t) /\ pc[t] \in {"sh_dfl", "sh_raise"}

\* C28: a handler that runs for signal s and does not wait for the mutex
\* ends by restoring the default disposition of s and raising s again:
\* the process is ended by s and not through exit(); s is raised only
\* after the backtrace emission is over and the mutex taken for it is
\* released, and it is raised also when log_trace_on_fatal is off.
C28_ReRaise ==
    /\ [](\A t \in Threads :
              InSignal(t) =>
                  /\ process.state # "exited"
                  /\ pc[t] = "sh_raise" =>
                         disposition[loc[t].signo] = "SIG_DFL"
                  /\ AfterTrace(t) => (loc[t].init_msg <=> log_trace_on_fatal)
                  /\ (AfterTrace(t) /\ loc[t].init_msg) =>
                         /\ log_mutex # t
                         /\ loc[t].nptrs >= 1
                         /\ loc[t].symbols => loc[t].i >= loc[t].nptrs
                         /\ \A D \in ActiveSeqs(t) :
                                FramesIn(D) =
                                    (IF loc[t].symbols
                                         THEN loc[t].nptrs - 1 ELSE 0)
                  /\ Signaled =>
                         /\ pc[t] = "sh_raise"
                         /\ process.code = loc[t].signo
                         /\ process.code = call[t].msg.len)
    /\ \A t \in {MainThread} :
           (InSignal(t) /\ ~Blocked(t)) ~> Signaled
C28_Witness ==
    /\ InSignal(MainThread) /\ Signaled /\ process.code = SIGABRT
    /\ ~log_trace_on_fatal /\ log_file # NULL

\* C29: a crash signal delivered to a thread that holds the mutex, with
\* log_trace_on_fatal enabled, leaves the handler waiting for the mutex
\* for ever, and the process never ends; with log_trace_on_fatal disabled
\* the handler takes no lock and the process always ends.
C29_SignalDeadlock ==
    /\ [](\A t \in Threads :
              /\ Blocked(t) =>
                     /\ Running
                     /\ pc[t] = "bt_lock" => ~ENABLED log_backtrace_lock(t)
              /\ (InSignal(t) /\ ~log_trace_on_fatal) => pc[t] \notin BtPcs)
    /\ [][\A t \in Threads :
              Blocked(t) => (Blocked(t)' /\ process' = process)]_vars
    /\ \A t \in {MainThread} :
           (InSignal(t) /\ ~log_trace_on_fatal) ~> Signaled
C29_Witness ==
    /\ Blocked(MainThread) /\ pc[MainThread] = "bt_lock"
    /\ log_file # NULL

\* backtrace() stores the innermost frame first: symbols[0] is
\* log_backtrace itself and symbols[nptrs - 1] the outermost caller, so
\* the frame printed from symbols[i] is the older the larger i is
FrameIndex(text) == text.body.len
FramesOf(D) == SelectSeq(D, IsFrame)

\* C30: the backtrace is emitted one frame per record, oldest frame first
\* (outermost caller first, innermost frame last), without the frame of
\* the capturing function; every other captured frame is delivered once
\* to each active sink.
C30_OldestFirst ==
    \A t \in Threads :
        (FatalCall(t) /\ Exited /\ loc[t].symbols) =>
            \A D \in ActiveSeqs(t) :
                /\ Len(FramesOf(D)) = loc[t].nptrs - 1
                /\ \A k \in 1..Len(FramesOf(D)) :
                       FrameIndex(FramesOf(D)[k]) = loc[t].nptrs - k

\* C31: when backtrace_symbols() resolves nothing (it returns NULL) the
\* backtrace is still emitted: every captured frame but the first is
\* delivered to the active sinks, as an unresolved address.
C31_UnresolvedFramesEmitted ==
    \A t \in Threads :
        (FatalCall(t) /\ Exited /\ loc[t].nptrs >= 1 /\ ~loc[t].symbols) =>
            \A D \in ActiveSeqs(t) : FramesIn(D) = loc[t].nptrs - 1

\* C32: no step of the fatal path, from a FATAL log call or a crash
\* signal to the end of the process, allocates or releases heap memory.
C32_NoHeapInFatalPath == heap = <<>>

\* C33: while no crash signal is raised and the callback keeps to its
\* contract, every call of a setter or of the log function at a level
\* below FATAL returns in the end, whatever the other threads call, and
\* the mutex is free whenever no call is in progress.
Crashed == Signaled \/ \E t \in Threads : loc[t].signo # 0
AllIdle == \A t \in Threads : pc[t] = "idle"
C33_CallsReturn ==
    /\ [](AllIdle /\ ~Crashed => log_mutex = 0)
    /\ \A t \in Threads : (pc[t] # "idle") ~> (pc[t] = "idle" \/ Crashed)

\* two threads have competed for the mutex and both calls have returned
C33_Witness ==
    /\ ~Crashed /\ AllIdle /\ log_mutex = 0
    /\ \A t \in Threads : nrecords[t] = 1
    /\ \E t \in Threads : call[t].fn = "log_message" /\ NewLines(t, "a.log") # <<>>
    /\ \E t \in Threads : call[t].fn = "cf_check" /\ log_file = NULL

\* the labels of the code of each group of functions
LevelPcs == {"sll_lock", "sll_set", "sll_unlock", "sls_lock", "sls_set",
             "sls_unlock", "sle_getenv"}
FormatPcs == {"sfo_lock", "sfo_date", "sfo_thread", "sfo_trace",
              "sfo_unlock"}
CallbackPcs == {"scb_lock", "scb_set", "scb_unlock"}
SinkPcs == {"slf_open", "slf_lock", "slf_set", "slf_unlock", "sfe_getenv",
            "sfn_lock", "sfn_set", "sfn_unlock", "cf_check", "cf_lock",
            "cf_close", "cf_unlock"}
LogPcs == EmitPcs \cup {"lm_fatal"}
\* the step taken is one of thread t, in the code at one of the labels
StepAt(t, labels) == pc[t] \in labels /\ pc'[t] # pc[t]

C35_ThresholdAtDelivery ==
    [][\A t \in Threads :
           (StepAt(t, {"lm_cb", "lm_file"}) /\ sinks' # sinks
                /\ loc[t].level # LOG_FATAL) =>
               loc[t].level <= current_log_level]_vars

\* everything delivered between the record of t and a frame is a frame
Contiguous(t, D) ==
    \A i, j, k \in 1..Len(D) :
        (i < j /\ j < k /\ IsRecordOf(t, D[i]) /\ IsFrame(D[k])) =>
            IsFrame(D[j])

\* C36: the record of a FATAL log call and the frames of its backtrace
\* are contiguous in the sink file and in the calls of the callback: no
\* record of another thread comes between them.
C36_FatalContiguous ==
    \A t \in Threads :
        FatalCall(t) =>
            /\ \A p \in Paths : Contiguous(t, disk[p])
            /\ Contiguous(t, [i \in 1..Len(cbLog) |-> cbLog[i].raw])

\* C37: when logger_close_file races with itself or with the file
\* setters, every stream is closed once at most and fclose is only called
\* on the installed, open stream.
C37_CloseOnce ==
    /\ \A h \in Handles : handle[h].closes <= 1
    /\ \A t \in Threads :
           pc[t] = "cf_close" =>
               IF log_file = NULL THEN FALSE
               ELSE handle[log_file].state = "open"

\* C38: the stream installed as the sink file is open, whatever calls of
\* the file setters and of logger_close_file have been made, so that no
\* record is written to a closed stream.
C38_InstalledIsOpen ==
    (log_file # NULL /\ \A t \in Threads : pc[t] \notin SinkPcs) =>
        handle[log_file].state = "open"

\* C39: when no call is in progress, every stream logger_set_log_file
\* has opened is the installed sink file or is closed.
C39_NoLeak ==
    AllIdle =>
        \A h \in Handles :
            (handle[h].state = "open" /\ handle[h].by = "logger") =>
                log_file = h

\* C40: the name log_level_to_string prints for a level from FATAL to
\* DEBUG other than TIMEOUT, passed to logger_set_log_level_from_string,
\* sets the threshold to that level; "TIMEOUT" and "LOG_TIMEOUT" leave the
\* threshold as it was, and no name sets it to LOG_TIMEOUT.
C40_NamesRoundTrip ==
    \A t \in Threads :
        (InStringCall(t) /\ pc[t] = "idle") =>
            /\ \A L \in RecordLevels \ {LOG_TIMEOUT} :
                   call[t].name = log_level_to_string(L) =>
                       current_log_level = L
            /\ call[t].name \in {log_level_to_string(LOG_TIMEOUT),
                                 S_LOG_ \o log_level_to_string(LOG_TIMEOUT)}
                   => current_log_level = call[t].threshold
            /\ current_log_level = LOG_TIMEOUT =>
                   call[t].threshold = LOG_TIMEOUT

\* "LOG_TIMEOUT" has been passed while the threshold was LOG_FATAL, and
\* the level query that follows returns LOG_FATAL
C40_Witness ==
    \E t \in Threads :
        /\ InStringCall(t) /\ pc[t] = "idle"
        /\ call[t].name = S_LOG_ \o S_TIMEOUT
        /\ call[t].threshold = LOG_FATAL
        /\ retval[t] = [fn |-> "logger_get_log_level", val |-> LOG_FATAL]

====
